---- MODULE Spec2Model ----
(***************************************************************************)
(* The three-tier document store of map_generator                          *)
(* (src/utils/data_manager.py) and the handlers that write to it.          *)
(*                                                                         *)
(* Python values are modelled as follows.                                  *)
(*   - A str is a sequence of one-character strings.                       *)
(*   - A value that comes from outside (parsed JSON, an AI result, a form) *)
(*     is a tagged record: JNull, JStr(s), JNum(n), JList(l), JDict(d).    *)
(*   - Coordinates are whole degrees (Int); float(x) of a number is x.     *)
(*   - A dict is a function from its keys; a missing key is a key that is  *)
(*     not in the DOMAIN.                                                  *)
(*   - Python objects that the store keeps by reference (a tier's          *)
(*     document, a filter's inclusive / exclusive mapping) live in the     *)
(*     heaps `docs` and `maps`; a tier is a reference into `docs`.         *)
(***************************************************************************)
EXTENDS Integers, Sequences, FiniteSets, TLC

(***************************************************************************)
(* Bounds of the model.                                                    *)
(***************************************************************************)
MaxItems == 1

\* the longest text handed to set_extracted_text
MaxLen == 4

(***************************************************************************)
(* Characters and strings.                                                 *)
(***************************************************************************)
SP == " "
TAB == "\t"
NL == "\n"

\* what str.strip() removes at both ends
StripChars == {SP, TAB, NL, "\r", "\f"}

\* the class [\t\r\f\v] of clean_text's second substitution
TabChars == {TAB, "\r", "\f"}

Digits == <<"0", "1", "2", "3", "4", "5", "6", "7", "8", "9">>

RECURSIVE DropWhile(_, _)
DropWhile(s, cls) ==
    IF s # << >> /\ Head(s) \in cls THEN DropWhile(Tail(s), cls) ELSE s

RECURSIVE Reverse(_)
Reverse(s) == IF s = << >> THEN << >> ELSE Append(Reverse(Tail(s)), Head(s))

\* str.strip()
Strip(s) == Reverse(DropWhile(Reverse(DropWhile(s, StripChars)), StripChars))

\* re.sub(r'[cls]+', rep, s): every maximal run of characters of cls becomes rep
RECURSIVE SubRuns(_, _, _)
SubRuns(s, cls, rep) ==
    IF s = << >> THEN << >>
    ELSE IF Head(s) \in cls THEN rep \o SubRuns(DropWhile(s, cls), cls, rep)
    ELSE <<Head(s)>> \o SubRuns(Tail(s), cls, rep)

\* re.sub(r'\n +', '\n', s)
RECURSIVE SubNlSpaces(_)
SubNlSpaces(s) ==
    IF s = << >> THEN << >>
    ELSE IF Head(s) = NL THEN <<NL>> \o SubNlSpaces(DropWhile(Tail(s), {SP}))
    ELSE <<Head(s)>> \o SubNlSpaces(Tail(s))

\* re.sub(r' +\n', '\n', s)
RECURSIVE SubSpacesNl(_)
SubSpacesNl(s) ==
    IF s = << >> THEN << >>
    ELSE IF Head(s) = SP
         THEN LET rest == DropWhile(s, {SP})
                  run == SubSeq(s, 1, Len(s) - Len(rest))
              IN  IF rest # << >> /\ Head(rest) = NL
                  THEN <<NL>> \o SubSpacesNl(Tail(rest))
                  ELSE run \o SubSpacesNl(rest)
    ELSE <<Head(s)>> \o SubSpacesNl(Tail(s))

\* re.sub(r'\n{3,}', '\n\n', s)
RECURSIVE SubNl3(_)
SubNl3(s) ==
    IF s = << >> THEN << >>
    ELSE IF Head(s) = NL
         THEN LET rest == DropWhile(s, {NL})
                  n == Len(s) - Len(rest)
              IN  (IF n >= 3 THEN <<NL, NL>> ELSE SubSeq(s, 1, n)) \o SubNl3(rest)
    ELSE <<Head(s)>> \o SubNl3(Tail(s))

\* clean_text applied to a str
clean_text(text) ==
    IF text = << >> THEN << >>
    ELSE SubNl3(SubSpacesNl(SubNlSpaces(
             SubRuns(SubRuns(Strip(text), {SP}, <<SP>>), TabChars, <<SP>>))))

(***************************************************************************)
(* Values that come from outside the store.                                *)
(***************************************************************************)
JNull == [t |-> "null"]
JStr(s) == [s |-> s, t |-> "str"]
JNum(n) == [n |-> n, t |-> "num"]
JList(l) == [l |-> l, t |-> "list"]
JDict(d) == [d |-> d, t |-> "dict"]

\* a reference to a mapping object of the heap `maps`
JRef(r) == [r |-> r, t |-> "ref"]

\* Python truthiness: `if value:`
Truthy(v) ==
    CASE v.t = "null" -> FALSE
      [] v.t = "str"  -> v.s # << >>
      [] v.t = "num"  -> v.n # 0
      [] v.t = "list" -> v.l # << >>
      [] v.t = "dict" -> DOMAIN v.d # {}

RECURSIVE NatStr(_)
NatStr(n) == IF n < 10 THEN <<Digits[n + 1]>> ELSE Append(NatStr(n \div 10), Digits[(n % 10) + 1])

\* str(value) of a str or a number
PyStr(v) ==
    CASE v.t = "str" -> v.s
      [] v.t = "num" -> IF v.n < 0 THEN <<"-">> \o NatStr(-v.n) ELSE NatStr(v.n)

DigitVal(c) == CHOOSE i \in 0..9 : Digits[i + 1] = c

IsDigit(c) == \E i \in 1..10 : Digits[i] = c

RECURSIVE DigitsVal(_)
DigitsVal(s) == IF s = << >> THEN 0 ELSE 10 * DigitsVal(SubSeq(s, 1, Len(s) - 1)) + DigitVal(s[Len(s)])

\* float(value): exc is "" when the conversion succeeds
PyFloat(v) ==
    CASE v.t = "num" -> [exc |-> "", n |-> v.n]
      [] v.t = "str" ->
            LET s == Strip(v.s)
                neg == s # << >> /\ Head(s) = "-"
                body == IF s # << >> /\ Head(s) \in {"-", "+"} THEN Tail(s) ELSE s
            IN  IF body # << >> /\ \A i \in 1..Len(body) : IsDigit(body[i])
                THEN [exc |-> "", n |-> IF neg THEN -DigitsVal(body) ELSE DigitsVal(body)]
                ELSE [exc |-> "ValueError", n |-> 0]
      [] OTHER -> [exc |-> "TypeError", n |-> 0]

(***************************************************************************)
(* clean_url, clean_tags.                                                  *)
(***************************************************************************)
Letters ==
    {"a", "b", "c", "d", "e", "f", "g", "h", "i", "j", "k", "l", "m", "n", "o", "p", "q",
     "r", "s", "t", "u", "v", "w", "x", "y", "z", "A", "B", "C", "D", "E", "F", "G", "H",
     "I", "J", "K", "L", "M", "N", "O", "P", "Q", "R", "S", "T", "U", "V", "W", "X", "Y",
     "Z"}

Alnum == Letters \cup {Digits[i] : i \in 1..10}

StartsWith(s, p) == Len(s) >= Len(p) /\ SubSeq(s, 1, Len(p)) = p

HttpPrefix == <<"h", "t", "t", "p", ":", "/", "/">>

HttpsPrefix == <<"h", "t", "t", "p", "s", ":", "/", "/">>

WwwPrefix == <<"w", "w", "w", ".">>

\* re.match(r'^https?://', url)
HasScheme(url) == StartsWith(url, HttpPrefix) \/ StartsWith(url, HttpsPrefix)

\* re.match(r'^[a-zA-Z0-9][a-zA-Z0-9\-\.]*[a-zA-Z0-9]\.[a-zA-Z]{2,}', url)
LooksLikeDomain(url) ==
    \E i \in 2..(Len(url) - 3) :
        /\ url[1] \in Alnum
        /\ \A k \in 2..(i - 1) : url[k] \in Alnum \cup {"-", "."}
        /\ url[i] \in Alnum
        /\ url[i + 1] = "."
        /\ url[i + 2] \in Letters
        /\ url[i + 3] \in Letters

\* clean_url applied to a str
clean_url(url) ==
    LET u == SelectSeq(Strip(url), LAMBDA c : c \notin StripChars)
    IN  IF u = << >> THEN << >>
        ELSE IF ~HasScheme(u) /\ (LooksLikeDomain(u) \/ StartsWith(u, WwwPrefix))
             THEN HttpsPrefix \o u
             ELSE u

RECURSIVE CleanTagSeq(_)
CleanTagSeq(l) ==
    IF l = << >> THEN << >>
    ELSE LET c == IF Head(l).t = "str" THEN clean_text(Head(l).s) ELSE << >>
         IN  (IF c # << >> THEN <<c>> ELSE << >>) \o CleanTagSeq(Tail(l))

\* clean_tags applied to any value
clean_tags(tags) == IF tags.t = "list" THEN CleanTagSeq(tags.l) ELSE << >>

(***************************************************************************)
(* Item normalisation: DataManager._clean_data_item.                       *)
(***************************************************************************)
ItemKeys == {"name", "address", "phone", "webName", "webLink", "intro", "tags", "center"}

KeyChars(k) ==
    CASE k = "name"    -> <<"n", "a", "m", "e">>
      [] k = "address" -> <<"a", "d", "d", "r", "e", "s", "s">>
      [] k = "phone"   -> <<"p", "h", "o", "n", "e">>
      [] k = "webName" -> <<"w", "e", "b", "N", "a", "m", "e">>
      [] k = "webLink" -> <<"w", "e", "b", "L", "i", "n", "k">>
      [] k = "intro"   -> <<"i", "n", "t", "r", "o">>
      [] k = "tags"    -> <<"t", "a", "g", "s">>
      [] k = "center"  -> <<"c", "e", "n", "t", "e", "r">>

\* `key in value` for a dict, a list or a str (it raises TypeError for the rest)
PyIn(k, v) ==
    CASE v.t = "dict" -> k \in DOMAIN v.d
      [] v.t = "list" -> \E i \in 1..Len(v.l) : v.l[i] = JStr(KeyChars(k))
      [] v.t = "str"  -> \E i \in 1..Len(v.s) : StartsWith(SubSeq(v.s, i, Len(v.s)), KeyChars(k))
      [] OTHER -> FALSE

\* _create_empty_data_item, and the defaults _clean_data_item fills in
EmptyDataItem ==
    [address |-> << >>, center |-> [lat |-> 0, lng |-> 0], intro |-> << >>, name |-> << >>,
     phone |-> << >>, tags |-> << >>, webLink |-> << >>, webName |-> << >>]

\* lines 174-178: one of the five string fields
CleanStringField(d, field) ==
    field :> (IF field \in DOMAIN d /\ Truthy(d[field]) THEN clean_text(PyStr(d[field])) ELSE << >>)

\* lines 181-184 without the else branch: no key when there is no link
CleanWebLinkIfAny(d) ==
    IF "webLink" \in DOMAIN d /\ Truthy(d["webLink"])
    THEN "webLink" :> clean_url(PyStr(d["webLink"])) ELSE << >>

\* lines 181-184
CleanWebLink(d) ==
    "webLink" :> (IF "webLink" \in DOMAIN d /\ Truthy(d["webLink"])
                  THEN clean_url(PyStr(d["webLink"])) ELSE << >>)

\* lines 187-190
CleanTagsField(d) == "tags" :> (IF "tags" \in DOMAIN d THEN clean_tags(d["tags"]) ELSE << >>)

\* center.get(axis, 0)
CenterGet(c, axis) == IF axis \in DOMAIN c THEN c[axis] ELSE JNum(0)

\* lines 193-200: the exception float() raises on lat, else on lng, else ""
CenterExc(d) ==
    IF "center" \in DOMAIN d /\ d["center"].t = "dict"
    THEN LET lat == PyFloat(CenterGet(d["center"].d, "lat"))
             lng == PyFloat(CenterGet(d["center"].d, "lng"))
         IN  IF lat.exc # "" THEN lat.exc ELSE lng.exc
    ELSE ""

CleanCenter(d) ==
    "center" :> (IF "center" \in DOMAIN d /\ d["center"].t = "dict"
                 THEN [lat |-> PyFloat(CenterGet(d["center"].d, "lat")).n,
                       lng |-> PyFloat(CenterGet(d["center"].d, "lng")).n]
                 ELSE [lat |-> 0, lng |-> 0])

\* _clean_data_item(item): [exc |-> "", item |-> cleaned_item], or the exception
\* that leaves the function
_clean_data_item(item) ==
    IF item.t \in {"null", "num"}
    THEN [exc |-> "TypeError", item |-> EmptyDataItem]
    ELSE IF item.t \in {"list", "str"}
    THEN [exc |-> IF \E k \in ItemKeys : PyIn(k, item) THEN "TypeError" ELSE "",
          item |-> EmptyDataItem]
    ELSE [exc |-> CenterExc(item.d),
          item |-> CleanStringField(item.d, "name") @@ CleanStringField(item.d, "address")
                   @@ CleanStringField(item.d, "phone") @@ CleanStringField(item.d, "webName")
                   @@ CleanStringField(item.d, "intro") @@ CleanWebLink(item.d)
                   @@ CleanTagsField(item.d) @@ CleanCenter(item.d)]

(***************************************************************************)
(* The session state (st.session_state) and the heap behind it.            *)
(*   saved_json, editing_json : references to document objects             *)
(*   docs : the document objects; a document's filter names its inclusive  *)
(*          and exclusive mapping objects by reference                     *)
(*   maps : the mapping objects                                            *)
(*   last : history: the operation that ran last, the exception that left  *)
(*          it ("" if it returned) and, where a property needs them, its   *)
(*          argument, the operation it followed and the saved document it  *)
(*          found                                                          *)
(***************************************************************************)
VARIABLES extracted_text, saved_json, editing_json, has_pending_edits, docs, maps, last

vars == <<extracted_text, saved_json, editing_json, has_pending_edits, docs, maps, last>>

\* two tiers, hence at most two live documents and four live mappings
DRef == 1..2
MRef == 1..4

\* references of objects allocated during an operation, before the heap is compacted
NewDoc == Cardinality(DRef) + 1
NewInc == JRef(Cardinality(MRef) + 1)
NewExc == JRef(Cardinality(MRef) + 2)

NoDoc == [free |-> TRUE]
EmptyMap == << >>

\* _create_empty_json(), its two new mappings being fi and fe
_create_empty_json(fi, fe) ==
    [data |-> << >>, description |-> << >>,
     filter |-> [exclusive |-> fe, inclusive |-> fi], name |-> << >>, origin |-> << >>]

\* what a reader of a tier sees: the document with its mappings looked up
Lookup(M, v) == IF v.t = "ref" THEN M[v.r] ELSE v

Resolve(D, M, r) ==
    [data |-> D[r].data, description |-> D[r].description,
     filter |-> [k \in DOMAIN D[r].filter |-> Lookup(M, D[r].filter[k])],
     name |-> D[r].name, origin |-> D[r].origin]

View(r) == Resolve(docs, maps, r)

savedDocument == View(saved_json)
editingDocument == View(editing_json)

EmptyDocument ==
    [data |-> << >>, description |-> << >>,
     filter |-> [exclusive |-> EmptyMap, inclusive |-> EmptyMap], name |-> << >>,
     origin |-> << >>]

\* The heap after an operation: only what the two tiers reach survives, and the
\* survivors are renumbered in the order saved, editing (objects have no address
\* the program can see).
SideRefs(doc) ==
    LET at(k) == IF k \in DOMAIN doc.filter /\ doc.filter[k].t = "ref"
                 THEN <<doc.filter[k].r>> ELSE << >>
    IN  at("inclusive") \o at("exclusive")

Order(D, s, e) == SideRefs(D[s]) \o SideRefs(D[e])

FirstAt(o, r) == CHOOSE i \in 1..Len(o) : o[i] = r /\ \A j \in 1..(i - 1) : o[j] # r

Rank(o, r) == Cardinality({o[j] : j \in 1..FirstAt(o, r)})

Renumber(D, s, e, r) ==
    [D[r] EXCEPT !.filter = [k \in DOMAIN D[r].filter |->
                                IF D[r].filter[k].t = "ref"
                                THEN JRef(Rank(Order(D, s, e), D[r].filter[k].r))
                                ELSE D[r].filter[k]]]

Heap(s, e, D0, M0) ==
    \E D \in {D0}, M \in {M0}, o \in {Order(D0, s, e)} :
        /\ saved_json' = 1
        /\ editing_json' = IF e = s THEN 1 ELSE 2
        /\ docs' = [i \in DRef |-> IF i = 1 THEN Renumber(D, s, e, s)
                                   ELSE IF e # s THEN Renumber(D, s, e, e) ELSE NoDoc]
        /\ maps' = [i \in MRef |->
                      IF \E j \in 1..Len(o) : Rank(o, o[j]) = i
                      THEN M[o[CHOOSE j \in 1..Len(o) : Rank(o, o[j]) = i]]
                      ELSE EmptyMap]

\* `last` after an operation that returned
Did(op) == [after |-> "", arg |-> JNull, before |-> JNull, exc |-> "", op |-> op]

Init ==
    /\ extracted_text = << >>
    /\ saved_json = 1
    /\ editing_json = 2
    /\ has_pending_edits = FALSE
    /\ docs = [i \in DRef |-> IF i = 1 THEN _create_empty_json(JRef(1), JRef(2))
                              ELSE _create_empty_json(JRef(3), JRef(4))]
    /\ maps = [i \in MRef |-> EmptyMap]
    /\ last = Did("init_session_state")

(***************************************************************************)
(* Document normalisation: DataManager._clean_json_structure.              *)
(* In a document handed to the store, a filter side that is a dict is      *)
(* either a new object, JDict(m), or an object a tier already holds,       *)
(* JAlias(tier, side): get_saved_json / get_editing_json return the stored *)
(* object itself, so a caller can hand its parts back.                     *)
(***************************************************************************)
JAlias(tier, side) == [side |-> side, t |-> "alias", tier |-> tier]

TierRef(tier) == IF tier = "saved" THEN saved_json ELSE editing_json

AliasRef(v) == docs[TierRef(v.tier)].filter[v.side]

\* isinstance(value, dict)
IsDict(v) == v.t \in {"dict", "alias"}

\* isinstance(value, list)
IsList(v) == v.t = "list"

\* the argument as a plain value: every alias replaced by what it holds now
SideByValue(v) == IF v.t = "alias" THEN JDict(maps[AliasRef(v).r]) ELSE v

FilterByValue(v) == IF v.t = "dict" THEN JDict([k \in DOMAIN v.d |-> SideByValue(v.d[k])]) ELSE v

ByValue(json_data) ==
    JDict([k \in DOMAIN json_data.d |->
              IF k = "filter" THEN FilterByValue(json_data.d[k]) ELSE json_data.d[k]])

\* lines 209-211: one of name, description, origin
CleanInfoField(d, field) ==
    IF field \in DOMAIN d /\ Truthy(d[field]) THEN clean_text(PyStr(d[field])) ELSE << >>

\* lines 214-219: does the document give this side of the filter as a dict?
GivesSide(d, side) ==
    /\ "filter" \in DOMAIN d
    /\ d["filter"].t = "dict"
    /\ side \in DOMAIN d["filter"].d
    /\ IsDict(d["filter"].d[side])

\* lines 216-219 without the isinstance checks: whatever the document gives for
\* the side is kept
SideRefUnchecked(d, side, fresh) ==
    IF "filter" \in DOMAIN d /\ d["filter"].t = "dict" /\ side \in DOMAIN d["filter"].d
    THEN (IF d["filter"].d[side].t = "alias" THEN AliasRef(d["filter"].d[side])
          ELSE IF d["filter"].d[side].t = "dict" THEN fresh
          ELSE d["filter"].d[side])
    ELSE fresh

\* the mapping object the cleaned document gets for a side: the caller's own
\* object when it gives one (line 217 / 219 assign it, they do not copy it),
\* else the new one of _create_empty_json
SideRef(d, side, fresh) ==
    IF GivesSide(d, side) /\ d["filter"].d[side].t = "alias"
    THEN AliasRef(d["filter"].d[side]) ELSE fresh

SideValue(d, side) ==
    IF GivesSide(d, side)
    THEN (IF d["filter"].d[side].t = "alias" THEN maps[AliasRef(d["filter"].d[side]).r]
          ELSE d["filter"].d[side].d)
    ELSE EmptyMap

\* line 223: [self._clean_data_item(item) for item in json_data["data"]]
RECURSIVE CleanItems(_)
CleanItems(l) ==
    IF l = << >> THEN [exc |-> "", items |-> << >>]
    ELSE LET h == _clean_data_item(Head(l))
             r == CleanItems(Tail(l))
         IN  IF h.exc # "" THEN [exc |-> h.exc, items |-> << >>]
             ELSE [exc |-> r.exc, items |-> <<h.item>> \o r.items]

CleanData(d) ==
    IF "data" \in DOMAIN d /\ d["data"].t = "list" THEN CleanItems(d["data"].l)
    ELSE [exc |-> "", items |-> << >>]

\* _clean_json_structure(json_data): the exception that leaves it ("" if none),
\* the cleaned document, and the heap with the mappings it refers to
_clean_json_structure(json_data) ==
    LET d == json_data.d
        ri == SideRef(d, "inclusive", NewInc)
        re == SideRef(d, "exclusive", NewExc)
    IN  [doc |-> [data |-> CleanData(d).items,
                  description |-> CleanInfoField(d, "description"),
                  filter |-> [exclusive |-> re, inclusive |-> ri],
                  name |-> CleanInfoField(d, "name"),
                  origin |-> CleanInfoField(d, "origin")],
         exc |-> CleanData(d).exc,
         maps |-> (NewInc.r :> SideValue(d, "inclusive")) @@ (NewExc.r :> SideValue(d, "exclusive"))
                  @@ maps]

\* normalize(D) of the claims: the value of the cleaned document
Normalize(json_data) ==
    LET r == _clean_json_structure(json_data)
    IN  Resolve((NewDoc :> r.doc), r.maps, NewDoc)

(***************************************************************************)
(* The store's operations (class DataManager).  An operation that an       *)
(* exception leaves changes nothing it had not yet assigned.               *)
(***************************************************************************)
Raised(op, exc, arg) ==
    /\ last' = [Did(op) EXCEPT !.exc = exc, !.arg = arg]
    /\ UNCHANGED <<extracted_text, saved_json, editing_json, has_pending_edits, docs, maps>>

\* the operation before this one, where a property looks back one operation
Preceding ==
    IF last.exc = "" /\ last.op \in {"set_editing_json", "start_editing"} THEN last.op ELSE ""

\* an assignment without the JSON round trip: the same document object
JsonAlias(src) == [doc |-> docs[src], maps |-> maps, ref |-> src]

\* json.loads(json.dumps(document)): a new document with new mappings that hold
\* the same values (every value the store holds is its own JSON round trip)
JsonCopy(src) ==
    [doc |-> [docs[src] EXCEPT !.filter = [exclusive |-> NewExc, inclusive |-> NewInc]],
     maps |-> (NewInc.r :> Lookup(maps, docs[src].filter.inclusive))
              @@ (NewExc.r :> Lookup(maps, docs[src].filter.exclusive)) @@ maps,
     ref |-> NewDoc]

\* a new empty document, as every reset assigns
FreshEmpty ==
    [doc |-> _create_empty_json(NewInc, NewExc),
     maps |-> (NewInc.r :> EmptyMap) @@ (NewExc.r :> EmptyMap) @@ maps, ref |-> NewDoc]

set_saved_json(json_data) ==
    \E r \in {_clean_json_structure(json_data)} :
        IF r.exc # "" THEN Raised("set_saved_json", r.exc, ByValue(json_data))
        ELSE /\ Heap(NewDoc, editing_json, (NewDoc :> r.doc) @@ docs, r.maps)
             /\ has_pending_edits' = FALSE
             /\ last' = [Did("set_saved_json") EXCEPT !.arg = ByValue(json_data),
                                                      !.after = Preceding]
             /\ UNCHANGED extracted_text

\* set_editing_json with line 268 before line 267: the flag assigned first
set_editing_json_flag_first(json_data) ==
    \E r \in {_clean_json_structure(json_data)} :
        IF r.exc # ""
        THEN /\ has_pending_edits' = TRUE
             /\ last' = [Did("set_editing_json") EXCEPT !.exc = r.exc, !.arg = ByValue(json_data)]
             /\ UNCHANGED <<extracted_text, saved_json, editing_json, docs, maps>>
        ELSE /\ Heap(saved_json, NewDoc, (NewDoc :> r.doc) @@ docs, r.maps)
             /\ has_pending_edits' = TRUE
             /\ last' = [Did("set_editing_json") EXCEPT !.arg = ByValue(json_data)]
             /\ UNCHANGED extracted_text

set_editing_json(json_data) ==
    \E r \in {_clean_json_structure(json_data)} :
        IF r.exc # "" THEN Raised("set_editing_json", r.exc, ByValue(json_data))
        ELSE /\ Heap(saved_json, NewDoc, (NewDoc :> r.doc) @@ docs, r.maps)
             /\ has_pending_edits' = TRUE
             /\ last' = [Did("set_editing_json") EXCEPT !.arg = ByValue(json_data)]
             /\ UNCHANGED extracted_text

\* what apply_edits / discard_edits remember of the operation before them
Follows(op) ==
    [Did(op) EXCEPT !.arg = IF Preceding = "set_editing_json" THEN last.arg ELSE JNull,
                    !.after = Preceding,
                    !.before = IF Preceding = "start_editing" THEN last.before ELSE JNull]

start_editing ==
    \E c \in {JsonCopy(saved_json)} :
        /\ Heap(saved_json, c.ref, (c.ref :> c.doc) @@ docs, c.maps)
        /\ has_pending_edits' = FALSE
        /\ last' = [Did("start_editing") EXCEPT !.before = savedDocument]
        /\ UNCHANGED extracted_text

\* apply_edits copying the wrong tier: saved_json from saved_json
apply_edits_from_saved ==
    \E c \in {JsonCopy(saved_json)} :
        /\ Heap(c.ref, editing_json, (c.ref :> c.doc) @@ docs, c.maps)
        /\ has_pending_edits' = FALSE
        /\ last' = Follows("apply_edits")
        /\ UNCHANGED extracted_text

\* apply_edits handing the editing document over and leaving an empty one behind
apply_edits_moving ==
    \E c \in {FreshEmpty} :
        /\ Heap(editing_json, c.ref, (c.ref :> c.doc) @@ docs, c.maps)
        /\ has_pending_edits' = FALSE
        /\ last' = Follows("apply_edits")
        /\ UNCHANGED extracted_text

apply_edits ==
    \E c \in {JsonCopy(editing_json)} :
        /\ Heap(c.ref, editing_json, (c.ref :> c.doc) @@ docs, c.maps)
        /\ has_pending_edits' = FALSE
        /\ last' = Follows("apply_edits")
        /\ UNCHANGED extracted_text

\* discard_edits as its docstring has it: editing_json cleared
discard_edits_clearing ==
    \E c \in {FreshEmpty} :
        /\ Heap(saved_json, c.ref, (c.ref :> c.doc) @@ docs, c.maps)
        /\ has_pending_edits' = FALSE
        /\ last' = Follows("discard_edits")
        /\ UNCHANGED extracted_text

discard_edits ==
    \E c \in {JsonCopy(saved_json)} :
        /\ Heap(saved_json, c.ref, (c.ref :> c.doc) @@ docs, c.maps)
        /\ has_pending_edits' = FALSE
        /\ last' = Follows("discard_edits")
        /\ UNCHANGED extracted_text

\* name, description, origin: JNull stands for None
update_editing_basic_info(name, description, origin) ==
    LET put(doc, field, v) ==
            IF v.t = "null" THEN doc
            ELSE [doc EXCEPT ![field] = IF v.t = "str" THEN clean_text(v.s) ELSE << >>]
    IN  \E doc \in {put(put(put(docs[editing_json], "name", name), "description", description),
                        "origin", origin)} :
            /\ Heap(saved_json, editing_json, [docs EXCEPT ![editing_json] = doc], maps)
            /\ has_pending_edits' =
                   (has_pending_edits \/ name.t # "null" \/ description.t # "null"
                    \/ origin.t # "null")
            /\ last' = Did("update_editing_basic_info")
            /\ UNCHANGED extracted_text

add_editing_data_item(item) ==
    /\ Len(docs[editing_json].data) < MaxItems
    /\ \E c \in {_clean_data_item(item)} :
           IF c.exc # "" THEN Raised("add_editing_data_item", c.exc, JNull)
           ELSE /\ Heap(saved_json, editing_json,
                        [docs EXCEPT ![editing_json].data = Append(@, c.item)], maps)
                /\ has_pending_edits' = TRUE
                /\ last' = Did("add_editing_data_item")
                /\ UNCHANGED extracted_text

\* index counts from 0, as in the source
update_editing_data_item(index, item) ==
    \E c \in {_clean_data_item(item)} :
        IF ~(0 <= index /\ index < Len(docs[editing_json].data))
        THEN /\ last' = Did("update_editing_data_item")
             /\ UNCHANGED <<extracted_text, saved_json, editing_json, has_pending_edits,
                            docs, maps>>
        ELSE IF c.exc # "" THEN Raised("update_editing_data_item", c.exc, JNull)
        ELSE /\ Heap(saved_json, editing_json,
                     [docs EXCEPT ![editing_json].data[index + 1] = c.item], maps)
             /\ has_pending_edits' = TRUE
             /\ last' = Did("update_editing_data_item")
             /\ UNCHANGED extracted_text

RemoveAt(l, i) == SubSeq(l, 1, i - 1) \o SubSeq(l, i + 1, Len(l))

remove_editing_data_item(index) ==
    IF ~(0 <= index /\ index < Len(docs[editing_json].data))
    THEN /\ last' = Did("remove_editing_data_item")
         /\ UNCHANGED <<extracted_text, saved_json, editing_json, has_pending_edits, docs, maps>>
    ELSE /\ Heap(saved_json, editing_json,
                 [docs EXCEPT ![editing_json].data = RemoveAt(@, index + 1)], maps)
         /\ has_pending_edits' = TRUE
         /\ last' = Did("remove_editing_data_item")
         /\ UNCHANGED extracted_text

\* inclusive, exclusive: JNull stands for None, else a dict (a new one or one a
\* tier holds)
update_editing_filters(inclusive, exclusive) ==
    LET ref(v, fresh) == IF v.t = "alias" THEN AliasRef(v) ELSE fresh
        val(v) == IF v.t = "alias" THEN maps[AliasRef(v).r] ELSE v.d
        f0 == docs[editing_json].filter
        f1 == IF inclusive.t = "null" THEN f0
              ELSE [f0 EXCEPT !.inclusive = ref(inclusive, NewInc)]
        f2 == IF exclusive.t = "null" THEN f1
              ELSE [f1 EXCEPT !.exclusive = ref(exclusive, NewExc)]
        M == (NewInc.r :> IF inclusive.t = "null" THEN EmptyMap ELSE val(inclusive))
             @@ (NewExc.r :> IF exclusive.t = "null" THEN EmptyMap ELSE val(exclusive)) @@ maps
    IN  /\ Heap(saved_json, editing_json, [docs EXCEPT ![editing_json].filter = f2], M)
        /\ has_pending_edits' = (has_pending_edits \/ inclusive.t # "null" \/ exclusive.t # "null")
        /\ last' = Did("update_editing_filters")
        /\ UNCHANGED extracted_text

\* the tier update_coordinates writes to (line 627)
CoordinateTier(use_editing) == IF use_editing THEN editing_json ELSE saved_json

update_coordinates(index, lat, lng, use_editing) ==
    \E t \in {CoordinateTier(use_editing)} :
        IF ~(0 <= index /\ index < Len(docs[t].data))
        THEN /\ last' = Did("update_coordinates")
             /\ UNCHANGED <<extracted_text, saved_json, editing_json, has_pending_edits,
                            docs, maps>>
        ELSE /\ Heap(saved_json, editing_json,
                     [docs EXCEPT ![t].data[index + 1] =
                         ("center" :> [lat |-> lat, lng |-> lng]) @@ @], maps)
             /\ has_pending_edits' = (has_pending_edits \/ use_editing)
             /\ last' = Did("update_coordinates")
             /\ UNCHANGED extracted_text

reset_all_data ==
    /\ extracted_text' = << >>
    /\ saved_json' = 1
    /\ editing_json' = 2
    /\ docs' = [i \in DRef |-> IF i = 1 THEN _create_empty_json(JRef(1), JRef(2))
                               ELSE _create_empty_json(JRef(3), JRef(4))]
    /\ maps' = [i \in MRef |-> EmptyMap]
    /\ has_pending_edits' = FALSE
    /\ last' = Did("reset_all_data")

\* reset_saved_json without its line 668: the flag stays as it is
reset_saved_json_keeping_flag ==
    \E c \in {FreshEmpty} :
        /\ Heap(c.ref, editing_json, (c.ref :> c.doc) @@ docs, c.maps)
        /\ last' = [Did("reset_saved_json") EXCEPT !.after = Preceding]
        /\ UNCHANGED <<extracted_text, has_pending_edits>>

reset_saved_json ==
    \E c \in {FreshEmpty} :
        /\ Heap(c.ref, editing_json, (c.ref :> c.doc) @@ docs, c.maps)
        /\ has_pending_edits' = FALSE
        /\ last' = [Did("reset_saved_json") EXCEPT !.after = Preceding]
        /\ UNCHANGED extracted_text

reset_editing_json ==
    \E c \in {FreshEmpty} :
        /\ Heap(saved_json, c.ref, (c.ref :> c.doc) @@ docs, c.maps)
        /\ has_pending_edits' = FALSE
        /\ last' = Did("reset_editing_json")
        /\ UNCHANGED extracted_text

(***************************************************************************)
(* Handlers of the tabs that write to the store.                           *)
(***************************************************************************)
\* a stored item as the value a caller reads
ItemValue(item) ==
    JDict([k \in DOMAIN item |->
              IF k = "tags" THEN JList([i \in 1..Len(item.tags) |-> JStr(item.tags[i])])
              ELSE IF k = "center"
              THEN JDict([a \in DOMAIN item.center |-> JNum(item.center[a])])
              ELSE JStr(item[k])])

\* the document object of a tier as its caller hands it back to the store after
\* changing its items in place: the tier's values and its own filter mappings
TierDocument(tier, data) ==
    LET doc == docs[TierRef(tier)]
    IN  JDict([data |-> JList(data), description |-> JStr(doc.description),
               filter |-> JDict([exclusive |-> JAlias(tier, "exclusive"),
                                 inclusive |-> JAlias(tier, "inclusive")]),
               name |-> JStr(doc.name), origin |-> JStr(doc.origin)])

\* tab_manager lines 695-698: `del item["webLink"]` where the link is blank
WithoutBlankLink(item) ==
    IF "webLink" \in DOMAIN item /\ Strip(item["webLink"]) = << >>
    THEN [k \in DOMAIN item \ {"webLink"} |-> item[k]]
    ELSE item

\* TabManager._clean_empty_weblinks: the deletions, then set_saved_json of the
\* same document when there was one
_clean_empty_weblinks ==
    LET data == docs[saved_json].data
        cleaned == [i \in 1..Len(data) |-> WithoutBlankLink(data[i])]
    IN  IF cleaned # data
        THEN set_saved_json(TierDocument("saved", [i \in 1..Len(data) |-> ItemValue(cleaned[i])]))
        ELSE UNCHANGED vars

(***************************************************************************)
(* The arguments the operations are called with.                           *)
(***************************************************************************)
TagA == <<"A">>

\* a filter mapping: category "c" with one tag
MapA == [c |-> JList(<<JStr(TagA)>>)]

Center(lat, lng) == JDict([lat |-> lat, lng |-> lng])

\* an item with a name and a tag list to clean, and no center
Place == JDict([name |-> JStr(<<SP, "a">>), tags |-> JList(<<JStr(<<"A", SP>>), JStr(<<SP>>)>>)])

\* the same item with a center
PlaceAt(center) == JDict(("center" :> center) @@ Place.d)

\* items float() accepts: in range, out of range, as numeric strings
CoercibleItems ==
    { Place,
      PlaceAt(Center(JNum(10), JNum(20))),
      PlaceAt(Center(JNum(95), JNum(10))),
      PlaceAt(Center(JStr(<<"1", "0">>), JStr(<<SP, "2", "0">>))) }

\* items whose center float() refuses: a non-numeric string, null
NonCoercibleItems ==
    { PlaceAt(Center(JStr(<<"a", "b", "c">>), JNum(20))),
      PlaceAt(Center(JNum(10), JNull)) }

StoreItems == CoercibleItems \cup NonCoercibleItems

DataLists == UNION {[1..n -> StoreItems] : n \in 0..MaxItems}

FullDocument(data) ==
    JDict([data |-> JList(data), description |-> JStr(<<"t">>),
           filter |-> JDict([exclusive |-> JDict(EmptyMap), inclusive |-> JDict(MapA)]),
           name |-> JStr(<<SP, "t", SP>>), origin |-> JStr(<<"t">>)])

\* documents with parts missing or of the wrong type
OddDocuments ==
    { JDict(<< >>),
      JDict([data |-> JList(<<Place>>)]),
      JDict([data |-> JNull, filter |-> JNull, name |-> JNull]),
      JDict([data |-> JList(<< >>), filter |-> JDict([inclusive |-> JList(<< >>)]),
             name |-> JNum(0)]) }

Documents == {FullDocument(data) : data \in DataLists} \cup OddDocuments

InfoArgs == {<<JNull, JNull, JNull>>, <<JStr(<<"t", SP>>), JStr(<<"t">>), JStr(<<"t">>)>>}

FilterArgs == {<<JNull, JNull>>, <<JDict(MapA), JNull>>, <<JDict(EmptyMap), JDict(EmptyMap)>>}

Coordinates == {<<10, 20>>, <<95, 10>>}

Indexes == 0..MaxItems

Next ==
    \/ \E d \in Documents : set_saved_json(d)
    \/ \E d \in Documents : set_editing_json(d)
    \/ start_editing
    \/ apply_edits
    \/ discard_edits
    \/ \E a \in InfoArgs : update_editing_basic_info(a[1], a[2], a[3])
    \/ \E item \in StoreItems : add_editing_data_item(item)
    \/ \E i \in Indexes, item \in StoreItems : update_editing_data_item(i, item)
    \/ \E i \in Indexes : remove_editing_data_item(i)
    \/ \E f \in FilterArgs : update_editing_filters(f[1], f[2])
    \/ \E i \in Indexes, c \in Coordinates, e \in BOOLEAN : update_coordinates(i, c[1], c[2], e)
    \/ reset_all_data
    \/ reset_saved_json
    \/ reset_editing_json
    \/ _clean_empty_weblinks

Spec == Init /\ [][Next]_vars

(***************************************************************************)
(* Properties of the two tiers.                                            *)
(***************************************************************************)
SetOps == {"set_saved_json", "set_editing_json"}

\* the tier the last set operation wrote
WrittenDocument == IF last.op = "set_saved_json" THEN savedDocument ELSE editingDocument

\* the items of a document handed to a set operation
GivenItems(json_data) ==
    IF "data" \in DOMAIN json_data.d /\ IsList(json_data.d["data"]) THEN json_data.d["data"].l
    ELSE << >>

\* C1 (apply commits): whatever the state before, after set_editing_json(D) and
\* then apply_edits the saved document is the normalised D and nothing is pending.
C1_ApplyCommits ==
    (last.op = "apply_edits" /\ last.after = "set_editing_json")
        => (savedDocument = Normalize(last.arg) /\ ~has_pending_edits)

\* a document whose items need normalising was committed that way
C1_Witness ==
    /\ last.op = "apply_edits"
    /\ last.after = "set_editing_json"
    /\ GivenItems(last.arg) = <<PlaceAt(Center(JStr(<<"1", "0">>), JStr(<<SP, "2", "0">>)))>>
    /\ savedDocument.data[1]["center"] = [lat |-> 10, lng |-> 20]

EditingTierOps ==
    {"set_editing_json", "start_editing", "discard_edits", "update_editing_basic_info",
     "add_editing_data_item", "update_editing_data_item", "remove_editing_data_item",
     "update_editing_filters"}

\* the two tiers are two documents and have no mapping object in common
NoSharedStructure ==
    /\ saved_json # editing_json
    /\ \A i \in 1..Len(SideRefs(docs[saved_json])), j \in 1..Len(SideRefs(docs[editing_json])) :
           SideRefs(docs[saved_json])[i] # SideRefs(docs[editing_json])[j]

C4_CandidateKeepsFlag ==
    (last.after = "set_editing_json" /\ editingDocument # savedDocument) => has_pending_edits

Tiers == {savedDocument, editingDocument}

C7_FilterSides ==
    \A r \in {saved_json, editing_json} :
        /\ DOMAIN docs[r].filter = {"inclusive", "exclusive"}
        /\ \A side \in DOMAIN docs[r].filter :
               /\ docs[r].filter[side].t = "ref"
               /\ docs[r].filter[side].r \in DOMAIN maps

\* a document whose inclusive side is a list and whose exclusive side is missing
\* was stored
C7_Witness ==
    /\ last.op \in SetOps
    /\ last.exc = ""
    /\ "filter" \in DOMAIN last.arg.d
    /\ IsDict(last.arg.d["filter"])
    /\ DOMAIN last.arg.d["filter"].d = {"inclusive"}
    /\ IsList(last.arg.d["filter"].d["inclusive"])
    /\ WrittenDocument.filter = [exclusive |-> EmptyMap, inclusive |-> EmptyMap]

\* lat outside [-90, 90] or lng outside [-180, 180]
OutOfRange(lat, lng) == lat < -90 \/ lat > 90 \/ lng < -180 \/ lng > 180

\* an item given with a numeric center that is out of range
GivenOutOfRange(item) ==
    /\ item.t = "dict"
    /\ "center" \in DOMAIN item.d
    /\ item.d["center"].t = "dict"
    /\ CenterExc(item.d) = ""
    /\ OutOfRange(PyFloat(CenterGet(item.d["center"].d, "lat")).n,
                  PyFloat(CenterGet(item.d["center"].d, "lng")).n)

\* C8 (coordinate clamp): an item given with lat or lng out of range is stored
\* with center (0, 0).
C8_CoordinateClamp ==
    (last.op \in SetOps /\ last.exc = "")
        => \A i \in 1..Len(GivenItems(last.arg)) :
               GivenOutOfRange(GivenItems(last.arg)[i])
                   => WrittenDocument.data[i]["center"] = [lat |-> 0, lng |-> 0]

\* C9 (no out-of-range coordinates): every item of either tier has its lat in
\* [-90, 90] and its lng in [-180, 180].
C9_CoordinatesInRange ==
    \A doc \in Tiers : \A i \in 1..Len(doc.data) :
        ~OutOfRange(doc.data[i]["center"].lat, doc.data[i]["center"].lng)

\* an item given with a center whose lat or lng float() refuses
GivenNonCoercible(item) ==
    /\ item.t = "dict"
    /\ "center" \in DOMAIN item.d
    /\ item.d["center"].t = "dict"
    /\ CenterExc(item.d) # ""

\* C10 (lenient normalisation): a set operation given an item whose lat or lng
\* cannot be coerced to a number returns, and stores that item with center (0, 0).
C10_LenientNormalisation ==
    \A i \in 1..(IF last.op \in SetOps THEN Len(GivenItems(last.arg)) ELSE 0) :
        GivenNonCoercible(GivenItems(last.arg)[i])
            => /\ last.exc = ""
               /\ WrittenDocument.data[i]["center"] = [lat |-> 0, lng |-> 0]

(***************************************************************************)
(* Failing writes.                                                         *)
(***************************************************************************)
DocumentKeys == {"name", "description", "origin", "filter", "data"}

\* a tier holds a whole document: every field, both filter sides, whole items
WholeDocument(r) ==
    /\ DOMAIN docs[r] = DocumentKeys
    /\ \A side \in {"inclusive", "exclusive"} :
           side \in DOMAIN docs[r].filter /\ docs[r].filter[side].t = "ref"
    /\ \A i \in 1..Len(docs[r].data) : DOMAIN docs[r].data[i] = ItemKeys

\* C11 (all or nothing): a set operation that an exception leaves has changed
\* neither tier nor has_pending_edits, and between operations each tier holds a
\* whole document.
C11_SetAllOrNothing ==
    /\ [](WholeDocument(saved_json) /\ WholeDocument(editing_json))
    /\ [][(last'.op \in SetOps /\ last'.exc # "")
              => /\ savedDocument' = savedDocument
                 /\ editingDocument' = editingDocument
                 /\ has_pending_edits' = has_pending_edits]_vars

\* set_editing_json raised on a document with a name and an item while the
\* editing tier held an unnamed document with an item and nothing was pending
C11_Witness ==
    /\ last.op = "set_editing_json"
    /\ last.exc = "ValueError"
    /\ Truthy(last.arg.d["name"])
    /\ editingDocument.name = << >>
    /\ Len(editingDocument.data) = 1
    /\ ~has_pending_edits

(***************************************************************************)
(* The extracted text: DataManager.set_extracted_text and                  *)
(* clear_extracted_text, called with every text of up to MaxLen characters *)
(* out of a letter, the space, the tab and the newline.                    *)
(***************************************************************************)
set_extracted_text(text) ==
    /\ extracted_text' = clean_text(text)
    /\ last' = [Did("set_extracted_text") EXCEPT !.arg = JStr(text)]
    /\ UNCHANGED <<saved_json, editing_json, has_pending_edits, docs, maps>>

clear_extracted_text ==
    /\ extracted_text' = << >>
    /\ last' = Did("clear_extracted_text")
    /\ UNCHANGED <<saved_json, editing_json, has_pending_edits, docs, maps>>

TextChars == {"a", SP, TAB, NL}

Texts == UNION {[1..n -> TextChars] : n \in 0..MaxLen}

TextNext ==
    \/ \E text \in Texts : set_extracted_text(text)
    \/ clear_extracted_text

TextSpec == Init /\ [][TextNext]_vars

\* normalize(i) of an item given as a value: the cleaned item, read back as a value
NormalizeItem(item) == ItemValue(_clean_data_item(item).item)

\* C12 (idempotent normalisation): cleaning a cleaned text gives the same text,
\* and normalising a normalised item gives the same item, whatever spaces, tabs
\* and newlines the text or the item's name holds.
C12_IdempotentNormalisation ==
    (last.op = "set_extracted_text")
        => /\ clean_text(extracted_text) = extracted_text
           /\ NormalizeItem(NormalizeItem(JDict([name |-> last.arg])))
                  = NormalizeItem(JDict([name |-> last.arg]))

\* s[i], s[i + 1] = a, b somewhere in s
Adjacent(s, a, b) == \E i \in 1..(Len(s) - 1) : s[i] = a /\ s[i + 1] = b

\* C13 (clean_text post-condition): a cleaned text has no whitespace at either
\* end, no tab, no two consecutive spaces, no space next to a newline and no
\* three consecutive newlines.
C13_CleanTextPostcondition ==
    (last.op = "set_extracted_text")
        => /\ Strip(extracted_text) = extracted_text
           /\ \A i \in 1..Len(extracted_text) : extracted_text[i] # TAB
           /\ ~Adjacent(extracted_text, SP, SP)
           /\ ~Adjacent(extracted_text, SP, NL)
           /\ ~Adjacent(extracted_text, NL, SP)
           /\ ~\E i \in 1..(Len(extracted_text) - 2) :
                   \A k \in 0..2 : extracted_text[i + k] = NL

(***************************************************************************)
(* Validation: validate_url, DataManager.validate_json_syntax and          *)
(* DataManager.validate_json_structure.                                    *)
(***************************************************************************)
\* validate_url(url) of a str: the pattern
\* ^https?://[a-zA-Z0-9]([a-zA-Z0-9\-\.]*[a-zA-Z0-9])?\.[a-zA-Z]{2,}([/?].*)?$
validate_url(url) ==
    \/ url = << >>
    \/ \E p \in {HttpPrefix, HttpsPrefix} :
           /\ StartsWith(url, p)
           /\ LET r == SubSeq(url, Len(p) + 1, Len(url))
              IN  \E i \in 1..Len(r), j \in 1..Len(r) :
                      /\ r[1] \in Alnum
                      /\ r[i] \in Alnum
                      /\ \A k \in 2..(i - 1) : r[k] \in Alnum \cup {"-", "."}
                      /\ i + 3 <= j
                      /\ r[i + 1] = "."
                      /\ \A k \in (i + 2)..j : r[k] \in Letters
                      /\ \/ j = Len(r)
                         \/ j + 1 = Len(r) /\ r[j + 1] = NL
                         \/ /\ r[j + 1] \in {"/", "?"}
                            /\ \A k \in (j + 2)..(Len(r) - 1) : r[k] # NL

\* line 334
RequiredFields == <<"name", "description", "origin", "filter", "data">>

\* line 334 without its last field
RequiredFieldsButData == <<"name", "description", "origin", "filter">>

FieldChars(k) ==
    CASE k = "name"        -> <<"n", "a", "m", "e">>
      [] k = "description" -> <<"d", "e", "s", "c", "r", "i", "p", "t", "i", "o", "n">>
      [] k = "origin"      -> <<"o", "r", "i", "g", "i", "n">>
      [] k = "filter"      -> <<"f", "i", "l", "t", "e", "r">>
      [] k = "data"        -> <<"d", "a", "t", "a">>

\* `field in json_data` for a dict, a list or a str
FieldIn(k, v) ==
    CASE v.t = "dict" -> k \in DOMAIN v.d
      [] v.t = "list" -> \E i \in 1..Len(v.l) : v.l[i] = JStr(FieldChars(k))
      [] v.t = "str"  -> \E i \in 1..Len(v.s) : StartsWith(SubSeq(v.s, i, Len(v.s)), FieldChars(k))
      [] OTHER -> FALSE

\* A message of the validation: which of its texts, and the field or the item
\* (counted from 1) the text names.
Message(kind, field, item) == [field |-> field, item |-> item, kind |-> kind]

NoMessage == Message("", "", 0)

Accepted == [msg |-> NoMessage, ok |-> TRUE]

Rejected(kind, field, item) == [msg |-> Message(kind, field, item), ok |-> FALSE]

\* isinstance(value, (int, float))
IsNumber(v) == v.t = "num"

\* line 380-382: validate_url(str(item["webLink"])); the str() of a list or a dict
\* begins with a bracket and matches no URL
ValidWebLink(v) == v.t \in {"str", "num"} /\ validate_url(PyStr(v))

\* lines 357-383 for the item numbered n: the message it returns with, if any
ItemMessage(item, n) ==
    IF item.t # "dict" THEN Message("item_not_object", "", n)
    ELSE IF "name" \notin DOMAIN item.d THEN Message("item_missing_name", "name", n)
    ELSE IF "center" \in DOMAIN item.d /\ item.d["center"].t # "dict"
    THEN Message("center_not_object", "center", n)
    ELSE IF /\ "center" \in DOMAIN item.d
            /\ "lat" \in DOMAIN item.d["center"].d
            /\ ~IsNumber(item.d["center"].d["lat"])
    THEN Message("not_a_number", "center.lat", n)
    ELSE IF /\ "center" \in DOMAIN item.d
            /\ "lng" \in DOMAIN item.d["center"].d
            /\ ~IsNumber(item.d["center"].d["lng"])
    THEN Message("not_a_number", "center.lng", n)
    ELSE IF "tags" \in DOMAIN item.d /\ item.d["tags"].t # "list"
    THEN Message("tags_not_list", "tags", n)
    ELSE IF /\ "webLink" \in DOMAIN item.d
            /\ Truthy(item.d["webLink"])
            /\ ~ValidWebLink(item.d["webLink"])
    THEN Message("invalid_url", "webLink", n)
    ELSE NoMessage

\* the loop of line 356 run from the end: the message of the last item that has one
RECURSIVE LastItemMessage(_, _)
LastItemMessage(data, n) ==
    IF data = << >> THEN NoMessage
    ELSE IF LastItemMessage(Tail(data), n + 1) # NoMessage
    THEN LastItemMessage(Tail(data), n + 1)
    ELSE ItemMessage(Head(data), n)

\* the loop of line 356 over data, its first item being numbered n
RECURSIVE FirstItemMessage(_, _)
FirstItemMessage(data, n) ==
    IF data = << >> THEN NoMessage
    ELSE IF ItemMessage(Head(data), n) # NoMessage THEN ItemMessage(Head(data), n)
    ELSE FirstItemMessage(Tail(data), n + 1)

\* lines 335-337: the first required field that json_data lacks, "" if none
RECURSIVE FirstMissing(_, _)
FirstMissing(fields, json_data) ==
    IF fields = << >> THEN ""
    ELSE IF ~FieldIn(Head(fields), json_data) THEN Head(fields)
    ELSE FirstMissing(Tail(fields), json_data)

\* lines 335-337 with data left out of the required fields
MissingFieldButData(json_data) == FirstMissing(RequiredFieldsButData, json_data)

MissingField(json_data) == FirstMissing(RequiredFields, json_data)

\* validate_json_structure(json_data): (ok, message)
validate_json_structure(json_data) ==
    IF json_data.t \in {"null", "num"} THEN Rejected("exception", "", 0)
    ELSE IF MissingField(json_data) # ""
    THEN Rejected("missing_field", MissingField(json_data), 0)
    ELSE IF json_data.t # "dict" \/ "filter" \notin DOMAIN json_data.d
    THEN Rejected("exception", "", 0)
    ELSE IF json_data.d["filter"].t # "dict" THEN Rejected("filter_not_object", "filter", 0)
    ELSE IF \E side \in {"inclusive", "exclusive"} : side \notin DOMAIN json_data.d["filter"].d
    THEN Rejected("filter_sides_missing", "filter", 0)
    ELSE IF \E side \in {"inclusive", "exclusive"} : json_data.d["filter"].d[side].t # "dict"
    THEN Rejected("filter_sides_not_object", "filter", 0)
    ELSE IF "data" \notin DOMAIN json_data.d THEN Rejected("exception", "", 0)
    ELSE IF json_data.d["data"].t # "list" THEN Rejected("data_not_list", "data", 0)
    ELSE IF FirstItemMessage(json_data.d["data"].l, 1) # NoMessage
    THEN [msg |-> FirstItemMessage(json_data.d["data"].l, 1), ok |-> FALSE]
    ELSE Accepted

\* A JSON text is modelled by what json.loads makes of it: the value it parses
\* to, or NotJson where json.loads raises JSONDecodeError.  `blank` says that the
\* text is empty or all whitespace.
NotJson == [t |-> "error"]

JsonText(value) == [blank |-> FALSE, json |-> value]

BlankText == [blank |-> TRUE, json |-> NotJson]

BrokenText == [blank |-> FALSE, json |-> NotJson]

\* json.loads(json_str), for a text it parses
JsonLoads(json_str) == json_str.json

\* validate_json_syntax(json_str): (ok, message)
validate_json_syntax(json_str) ==
    IF json_str.json = NotJson THEN Rejected("syntax", "", 0) ELSE Accepted

\* JSONEditorTab._validate_json(json_str)
_validate_json(json_str) ==
    IF ~validate_json_syntax(json_str).ok THEN validate_json_syntax(json_str)
    ELSE validate_json_structure(JsonLoads(json_str))

(***************************************************************************)
(* Handlers of the tabs: the JSON editor's save, the JSON import, the      *)
(* calls to the AI collaborator and the coordinate table's save.  A        *)
(* handler catches what the store raises; `last` records its argument, the *)
(* verdict or message it ended with, and whether the store was written.    *)
(***************************************************************************)
Handled(op, arg, verdict, done) ==
    [done |-> done, verdict |-> verdict] @@ [Did(op) EXCEPT !.arg = arg]

\* nothing of the two tiers is assigned
Untouched == UNCHANGED <<saved_json, editing_json, has_pending_edits, docs, maps>>

\* lines 247-249 of set_saved_json, r being the cleaned document
StoreSaved(r) ==
    /\ Heap(NewDoc, editing_json, (NewDoc :> r.doc) @@ docs, r.maps)
    /\ has_pending_edits' = FALSE

\* lines 267-268 of set_editing_json
StoreEditing(r) ==
    /\ Heap(saved_json, NewDoc, (NewDoc :> r.doc) @@ docs, r.maps)
    /\ has_pending_edits' = TRUE

\* lines 289-290 of start_editing
CopySavedToEditing ==
    \E c \in {JsonCopy(saved_json)} :
        /\ Heap(saved_json, c.ref, (c.ref :> c.doc) @@ docs, c.maps)
        /\ has_pending_edits' = FALSE

\* tab_json_editor lines 219-220: item.get("webLink", "").strip() of every item;
\* it raises AttributeError on a webLink that is not a str
WebLinkCountRaises(json_data) ==
    /\ "data" \in DOMAIN json_data.d
    /\ json_data.d["data"].t = "list"
    /\ \E i \in 1..Len(json_data.d["data"].l) :
           /\ json_data.d["data"].l[i].t = "dict"
           /\ "webLink" \in DOMAIN json_data.d["data"].l[i].d
           /\ json_data.d["data"].l[i].d["webLink"].t # "str"

\* JSONEditorTab._save_json without its first four lines: no validation
_save_json_unvalidated(json_str) ==
    IF json_str.json = NotJson \/ json_str.json.t # "dict" \/ WebLinkCountRaises(JsonLoads(json_str))
    THEN /\ last' = Handled("_save_json", json_str, _validate_json(json_str), FALSE)
         /\ UNCHANGED extracted_text
         /\ Untouched
    ELSE \E r \in {_clean_json_structure(JsonLoads(json_str))} :
             IF r.exc # ""
             THEN /\ last' = Handled("_save_json", json_str, _validate_json(json_str), FALSE)
                  /\ UNCHANGED extracted_text
                  /\ Untouched
             ELSE /\ StoreSaved(r)
                  /\ last' = Handled("_save_json", json_str, _validate_json(json_str), TRUE)
                  /\ UNCHANGED extracted_text

\* JSONEditorTab._save_json(json_str)
_save_json(json_str) ==
    \E v \in {_validate_json(json_str)} :
        IF ~v.ok
        THEN /\ last' = Handled("_save_json", json_str, v, FALSE)
             /\ UNCHANGED extracted_text
             /\ Untouched
        ELSE IF WebLinkCountRaises(JsonLoads(json_str))
        THEN /\ last' = Handled("_save_json", json_str, v, FALSE)
             /\ UNCHANGED extracted_text
             /\ Untouched
        ELSE \E r \in {_clean_json_structure(JsonLoads(json_str))} :
                 IF r.exc # ""
                 THEN /\ last' = Handled("_save_json", json_str, v, FALSE)
                      /\ UNCHANGED extracted_text
                      /\ Untouched
                 ELSE /\ StoreSaved(r)
                      /\ last' = Handled("_save_json", json_str, v, TRUE)
                      /\ UNCHANGED extracted_text

\* len(value)
PyLen(v) ==
    CASE v.t = "list" -> Len(v.l)
      [] v.t = "str"  -> Len(v.s)
      [] v.t = "dict" -> Cardinality(DOMAIN v.d)

\* tab_data_extraction line 467: the text that stands for an import of n places;
\* a character outside ASCII is written as its code point
ImportedNote(n) ==
    <<"U+5DF2", "U+5BFC", "U+5165", SP>> \o NatStr(n)
        \o <<SP, "U+4E2A", "U+5730", "U+70B9", "U+7684", "J", "S", "O", "N", "U+6570", "U+636E">>

\* lines 433-434 left out: the parsed value as it is
AsParsed(parsed_json) == parsed_json

\* lines 433-434: a list is taken as the data of a document
AsDocument(parsed_json) ==
    IF parsed_json.t = "list" THEN JDict([data |-> parsed_json]) ELSE parsed_json

\* lines 441-461: the document handed to set_saved_json
ImportedDocument(parsed_json) ==
    IF \E k \in {"name", "description", "origin", "filter"} : k \in DOMAIN parsed_json.d
    THEN parsed_json
    ELSE JDict([data |-> parsed_json.d["data"], description |-> JStr(<< >>),
                filter |-> JDict([exclusive |-> JDict(EmptyMap), inclusive |-> JDict(EmptyMap)]),
                name |-> JStr(<< >>), origin |-> JStr(<< >>)])

\* DataExtractionTab._import_json_data(json_input)
_import_json_data(json_input) ==
    LET refused(kind, field) ==
            /\ last' = Handled("_import_json_data", json_input, Rejected(kind, field, 0), FALSE)
            /\ UNCHANGED extracted_text
            /\ Untouched
        parsed_json == AsDocument(JsonLoads(json_input))
    IN  IF json_input.blank THEN refused("blank", "")
        ELSE IF ~validate_json_syntax(json_input).ok THEN refused("syntax", "")
        ELSE IF parsed_json.t \in {"null", "num"} THEN refused("exception", "")
        ELSE IF ~FieldIn("data", parsed_json) THEN refused("missing_field", "data")
        ELSE IF parsed_json.t # "dict" THEN refused("exception", "")
        ELSE \E r \in {_clean_json_structure(ImportedDocument(parsed_json))} :
                 IF r.exc # "" THEN refused("exception", "")
                 ELSE /\ StoreSaved(r)
                      /\ IF parsed_json.d["data"].t \in {"null", "num"}
                         THEN /\ UNCHANGED extracted_text
                              /\ last' = Handled("_import_json_data", json_input,
                                                 Rejected("exception", "", 0), TRUE)
                         ELSE /\ extracted_text' =
                                     clean_text(ImportedNote(PyLen(parsed_json.d["data"])))
                              /\ last' = Handled("_import_json_data", json_input, Accepted, TRUE)

\* What a call to the AI collaborator (MapDataProcessor.generate_json_structure,
\* ai_edit_json_data) ends with: it raises, or it returns a value.
Raises(exc) == [raises |-> exc, value |-> JNull]

Returns(value) == [raises |-> "", value |-> value]

\* DataExtractionTab._execute_json_generation, the collaborator ending with outcome
_execute_json_generation(outcome) ==
    IF outcome.raises # "" \/ ~Truthy(outcome.value)
    THEN /\ last' = Handled("_execute_json_generation", outcome, NoMessage, FALSE)
         /\ UNCHANGED extracted_text
         /\ Untouched
    ELSE \E r \in {_clean_json_structure(outcome.value)} :
             IF r.exc # ""
             THEN /\ last' = Handled("_execute_json_generation", outcome, NoMessage, FALSE)
                  /\ UNCHANGED extracted_text
                  /\ Untouched
             ELSE /\ StoreEditing(r)
                  /\ last' = Handled("_execute_json_generation", outcome, NoMessage, TRUE)
                  /\ UNCHANGED extracted_text

\* DataEditingTab._execute_ai_edit
_execute_ai_edit(outcome) ==
    IF outcome.raises # ""
    THEN /\ last' = Handled("_execute_ai_edit", outcome, NoMessage, FALSE)
         /\ UNCHANGED extracted_text
         /\ Untouched
    ELSE \E r \in {_clean_json_structure(outcome.value)} :
             IF r.exc # ""
             THEN /\ last' = Handled("_execute_ai_edit", outcome, NoMessage, FALSE)
                  /\ UNCHANGED extracted_text
                  /\ Untouched
             ELSE /\ StoreEditing(r)
                  /\ last' = Handled("_execute_ai_edit", outcome, NoMessage, TRUE)
                  /\ UNCHANGED extracted_text

\* TagManagementTab._execute_ai_tag_editing: start_editing() (line 507), then the
\* collaborator, then set_editing_json of what it returned (line 526)
_execute_ai_tag_editing(outcome) ==
    IF outcome.raises # ""
    THEN /\ CopySavedToEditing
         /\ last' = Handled("_execute_ai_tag_editing", outcome, NoMessage, FALSE)
         /\ UNCHANGED extracted_text
    ELSE \E r \in {_clean_json_structure(outcome.value)} :
             IF r.exc # ""
             THEN /\ CopySavedToEditing
                  /\ last' = Handled("_execute_ai_tag_editing", outcome, NoMessage, FALSE)
                  /\ UNCHANGED extracted_text
             ELSE /\ StoreEditing(r)
                  /\ last' = Handled("_execute_ai_tag_editing", outcome, NoMessage, TRUE)
                  /\ UNCHANGED extracted_text

(***************************************************************************)
(* The texts given to the JSON editor and to the import, and the           *)
(* specification of the two handlers; _execute_ai_edit is there for the    *)
(* edits that are pending when they run.                                   *)
(***************************************************************************)
Named == JDict([name |-> JStr(<<"a">>)])

With(value, key, v) == JDict((key :> v) @@ value.d)

Without(value, keys) == JDict([k \in DOMAIN value.d \ keys |-> value.d[k]])

UrlABC == <<"h", "t", "t", "p", "s", ":", "/", "/", "a", ".", "b", "c">>

\* items the validation lets through
ValidItems ==
    { Place,
      PlaceAt(Center(JNum(10), JNum(20))),
      With(Named, "webLink", JStr(UrlABC)),
      With(Named, "webLink", JStr(<< >>)),
      With(Named, "webLink", JNull) }

NoName == JDict([tags |-> JList(<< >>)])

LatText == PlaceAt(Center(JStr(<<"1", "0">>), JStr(<<SP, "2", "0">>)))

\* items with one violation each
InvalidItems ==
    { JNull,
      NoName,
      PlaceAt(JNull),
      LatText,
      PlaceAt(Center(JNum(10), JNull)),
      With(Named, "tags", JStr(TagA)),
      With(Named, "webLink", JStr(<<"a", ".", "b", "c">>)) }

ValidationLists ==
    {<< >>} \cup {<<item>> : item \in ValidItems \cup InvalidItems}
        \cup {<<Place, item>> : item \in {Place, NoName, LatText}}
        \cup {<<LatText, NoName>>, <<NoName, LatText>>}

\* documents with a defect above the items, alone or together with others
DefectiveDocuments ==
    {Without(FullDocument(<<Place>>), {k}) : k \in DocumentKeys}
        \cup { Without(FullDocument(<<Place>>), {"name", "data"}),
               Without(FullDocument(<<Place>>), {"filter", "data"}),
               Without(With(FullDocument(<<Place>>), "filter", JNull), {"data"}),
               With(FullDocument(<<Place>>), "filter", JNull),
               With(FullDocument(<<Place>>), "filter", JDict([inclusive |-> JDict(MapA)])),
               With(FullDocument(<<Place>>), "filter",
                    JDict([exclusive |-> JDict(EmptyMap), inclusive |-> JList(<< >>)])),
               With(FullDocument(<<NoName>>), "filter", JNull),
               With(With(FullDocument(<<Place>>), "filter", JNull), "data", JNull),
               With(FullDocument(<<Place>>), "data", JNull),
               With(FullDocument(<<Place>>), "data", JDict([name |-> JStr(<<"a">>)])),
               JDict([data |-> JNull]) }

\* JSON values that are no document
NoDocuments == {JList(<< >>), JList(<<Place>>), JNum(0), JNull, JStr(FieldChars("data"))}

JsonTexts ==
    {BlankText, BrokenText}
        \cup {JsonText(FullDocument(data)) : data \in ValidationLists}
        \cup {JsonText(JDict([data |-> JList(<<Place>>)]))}
        \cup {JsonText(value) : value \in DefectiveDocuments \cup NoDocuments}

\* the texts given to the import: no JSON, no document, documents without data,
\* documents it stores, one the store raises on, one whose data has no length
ImportTexts ==
    {BlankText, BrokenText}
        \cup {JsonText(value) : value \in NoDocuments}
        \cup {JsonText(Without(FullDocument(<<Place>>), keys)) :
                  keys \in {{"data"}, {"name", "data"}, DocumentKeys}}
        \cup {JsonText(FullDocument(data)) :
                  data \in {<<Place>>, <<PlaceAt(Center(JNum(10), JNull))>>}}
        \cup {JsonText(JDict([data |-> JList(<<Place>>)])),
              JsonText(With(FullDocument(<<Place>>), "data", JNull))}

EditOutcomes == {Raises("ValueError"), Returns(FullDocument(<<Place>>))}

ValidateNext ==
    \/ \E json_str \in JsonTexts : _save_json(json_str)
    \/ \E json_input \in ImportTexts : _import_json_data(json_input)
    \/ \E outcome \in EditOutcomes : _execute_ai_edit(outcome)

ValidateSpec == Init /\ [][ValidateNext]_vars

\* the document the JSON editor's save was last given, when its text held one
SavedText == last.op = "_save_json" /\ last.arg.json # NotJson /\ last.arg.json.t = "dict"

\* C14 as stated (validation short-circuit): a document without `data` is
\* rejected with the message that names data, whatever else is wrong with it.
C14_MissingDataNamed ==
    (SavedText /\ "data" \notin DOMAIN last.arg.json.d)
        => /\ ~last.verdict.ok
           /\ last.verdict.msg.kind = "missing_field"
           /\ last.verdict.msg.field = "data"

\* C14 as the code has it: a document without `data` is rejected with the
\* message for a missing field, whatever else is wrong with it; the field named
\* is the first the document lacks of name, description, origin, filter, data,
\* hence data exactly when the other four are there.
C14_MissingDataRejected ==
    (SavedText /\ "data" \notin DOMAIN last.arg.json.d)
        => /\ ~last.verdict.ok
           /\ last.verdict.msg.kind = "missing_field"
           /\ \E i \in 1..Len(RequiredFields) :
                  /\ last.verdict.msg.field = RequiredFields[i]
                  /\ RequiredFields[i] \notin DOMAIN last.arg.json.d
                  /\ \A j \in 1..(i - 1) : RequiredFields[j] \in DOMAIN last.arg.json.d
           /\ (last.verdict.msg.field = "data")
                  <=> (DocumentKeys \ {"data"} \subseteq DOMAIN last.arg.json.d)

\* a document without data and with a filter that is no object was rejected for
\* its missing data
C14_Witness ==
    /\ SavedText
    /\ DocumentKeys \ DOMAIN last.arg.json.d = {"data"}
    /\ last.arg.json.d["filter"].t # "dict"
    /\ last.verdict.msg = Message("missing_field", "data", 0)

\* The violations of a document d, by the stage of the validation that looks
\* for them: 1 the top-level fields, 2 the filter, 3 data, 4 the items.
TopLevelViolation(d) == DocumentKeys \ DOMAIN d # {}

FilterViolation(d) ==
    /\ "filter" \in DOMAIN d
    /\ \/ d["filter"].t # "dict"
       \/ \E side \in {"inclusive", "exclusive"} :
              side \notin DOMAIN d["filter"].d \/ d["filter"].d[side].t # "dict"

DataViolation(d) == "data" \in DOMAIN d /\ d["data"].t # "list"

ItemViolation(item) ==
    \/ item.t # "dict"
    \/ "name" \notin DOMAIN item.d
    \/ /\ "center" \in DOMAIN item.d
       /\ \/ item.d["center"].t # "dict"
          \/ \E axis \in {"lat", "lng"} :
                 axis \in DOMAIN item.d["center"].d /\ item.d["center"].d[axis].t # "num"
    \/ "tags" \in DOMAIN item.d /\ item.d["tags"].t # "list"
    \/ /\ "webLink" \in DOMAIN item.d
       /\ Truthy(item.d["webLink"])
       /\ ~(item.d["webLink"].t = "str" /\ validate_url(item.d["webLink"].s))

ViolatingItems(d) ==
    IF "data" \in DOMAIN d /\ d["data"].t = "list"
    THEN {i \in 1..Len(d["data"].l) : ItemViolation(d["data"].l[i])}
    ELSE {}

FirstStage(d) ==
    IF TopLevelViolation(d) THEN 1
    ELSE IF FilterViolation(d) THEN 2
    ELSE IF DataViolation(d) THEN 3
    ELSE IF ViolatingItems(d) # {} THEN 4
    ELSE 0

\* the stage a message of the validation belongs to
StageOf(kind) ==
    CASE kind = "missing_field" -> 1
      [] kind \in {"filter_not_object", "filter_sides_missing", "filter_sides_not_object"} -> 2
      [] kind = "data_not_list" -> 3
      [] kind \in {"item_not_object", "item_missing_name", "center_not_object", "not_a_number",
                   "tags_not_list", "invalid_url"} -> 4
      [] OTHER -> 0

LacksData(text) ==
    \/ text.json = NotJson
    \/ AsDocument(text.json).t # "dict"
    \/ "data" \notin DOMAIN AsDocument(text.json).d

\* C16 (a failed validation blocks the commit): when the JSON editor's save is
\* given a text that fails the syntax or the structure validation, or the import
\* a text that is no JSON or has no data, both documents, the extracted text and
\* has_pending_edits are after the handler what they were before it.
C16_FailedValidationBlocks ==
    [][(\/ last'.op = "_save_json" /\ ~last'.verdict.ok
        \/ last'.op = "_import_json_data" /\ LacksData(last'.arg))
          => /\ savedDocument' = savedDocument
             /\ editingDocument' = editingDocument
             /\ extracted_text' = extracted_text
             /\ has_pending_edits' = has_pending_edits]_vars

\* an import was refused for its missing data while a saved document, an
\* extracted text and pending edits were there
C16_Witness ==
    /\ last.op = "_import_json_data"
    /\ last.arg.json # NotJson
    /\ LacksData(last.arg)
    /\ ~last.done
    /\ Len(savedDocument.data) = 1
    /\ extracted_text # << >>
    /\ editingDocument # savedDocument
    /\ has_pending_edits

(***************************************************************************)
(* The coordinate table's save (CoordinateManagementTab), and the          *)
(* specification of the handlers that edit a saved document: the table's   *)
(* save and the three calls to the AI collaborator.                        *)
(***************************************************************************)
\* the most rows the coordinate table has
MaxRows == 2

\* str.split(",")
RECURSIVE SplitComma(_)
SplitComma(s) ==
    IF \A i \in 1..Len(s) : s[i] # "," THEN <<s>>
    ELSE LET i == CHOOSE i \in 1..Len(s) : s[i] = "," /\ \A j \in 1..(i - 1) : s[j] # ","
         IN  <<SubSeq(s, 1, i - 1)>> \o SplitComma(SubSeq(s, i + 1, Len(s)))

\* lines 166-190 for one row: the center it gives the item, or the error that
\* ends the save
RowCenter(coord_text) ==
    IF coord_text = << >> \/ coord_text = <<"0", ",", "0">>
    THEN [center |-> [lat |-> 0, lng |-> 0], error |-> ""]
    ELSE LET parts == SplitComma(coord_text)
             lng == PyFloat(JStr(Strip(parts[1])))
             lat == PyFloat(JStr(Strip(parts[2])))
         IN  IF Len(parts) # 2
             THEN [center |-> [lat |-> 0, lng |-> 0], error |-> "format"]
             ELSE IF lng.exc # "" \/ lat.exc # ""
             THEN [center |-> [lat |-> 0, lng |-> 0], error |-> "not_a_number"]
             ELSE IF -90 <= lat.n /\ lat.n <= 90 /\ -180 <= lng.n /\ lng.n <= 180
             THEN [center |-> [lat |-> lat.n, lng |-> lng.n], error |-> ""]
             ELSE [center |-> [lat |-> 0, lng |-> 0], error |-> "range"]

\* the loop of lines 165-190 from row i on: the items of the saved document
\* object as the loop leaves them (line 178 and line 190 assign to the stored
\* object itself), the error that ended it and the row it ended at
RECURSIVE ApplyRows(_, _, _)
ApplyRows(data, rows, i) ==
    IF i > Len(rows) THEN [data |-> data, error |-> "", row |-> 0]
    ELSE IF RowCenter(rows[i]).error # ""
    THEN [data |-> data, error |-> RowCenter(rows[i]).error, row |-> i]
    ELSE ApplyRows([data EXCEPT ![i] = ("center" :> RowCenter(rows[i]).center) @@ @],
                   rows, i + 1)

\* CoordinateManagementTab._save_coordinate_changes, rows being the texts of
\* the table's coordinate column, one per item of the saved document
_save_coordinate_changes(rows) ==
    \E a \in {ApplyRows(docs[saved_json].data, rows, 1)} :
        \E D \in {[docs EXCEPT ![saved_json].data = a.data]} :
            IF a.error # ""
            THEN /\ Heap(saved_json, editing_json, D, maps)
                 /\ last' = Handled("_save_coordinate_changes", rows,
                                    Rejected(a.error, "", a.row), FALSE)
                 /\ UNCHANGED <<extracted_text, has_pending_edits>>
            ELSE \E r \in {_clean_json_structure(TierDocument("saved",
                               [i \in 1..Len(a.data) |-> ItemValue(a.data[i])]))} :
                     /\ Heap(NewDoc, editing_json, (NewDoc :> r.doc) @@ D, r.maps)
                     /\ has_pending_edits' = FALSE
                     /\ last' = Handled("_save_coordinate_changes", rows, Accepted, TRUE)
                     /\ UNCHANGED extracted_text

\* the texts of a row: cleared, in range (lng,lat), latitude out of range, not
\* numbers, one part only
RowTexts ==
    { <<"0", ",", "0">>,
      <<"3", "0", ",", SP, "4", "0">>,
      <<"3", "0", ",", "9", "5">>,
      <<"a", ",", "b">>,
      <<"3", "0">> }

\* the documents the table is shown for: up to MaxRows items, with and without
\* coordinates
TableDocuments ==
    {FullDocument(data) :
        data \in UNION {[1..n -> {Place, PlaceAt(Center(JNum(10), JNum(20)))}] : n \in 0..MaxRows}}

\* what the structuring call ends with: an exception, no document, a document
GenerationOutcomes == {Raises("ValueError"), Returns(JNull), Returns(FullDocument(<<Place>>))}

EditNext ==
    \/ \E d \in TableDocuments : set_saved_json(d)
    \/ \E rows \in [1..Len(docs[saved_json].data) -> RowTexts] : _save_coordinate_changes(rows)
    \/ \E outcome \in GenerationOutcomes : _execute_json_generation(outcome)
    \/ \E outcome \in EditOutcomes : _execute_ai_edit(outcome)
    \/ \E outcome \in EditOutcomes : _execute_ai_tag_editing(outcome)
    \/ apply_edits
    \/ discard_edits

EditSpec == Init /\ [][EditNext]_vars

\* the centers of the saved document's items
SavedCenters == [i \in 1..Len(savedDocument.data) |-> savedDocument.data[i].center]

\* C17 (no partial apply in the coordinate table's save): when a row of the
\* table is refused (wrong format, not numeric, out of range), the center of
\* every item of the saved document is after the save what it was before it.
C17_NoPartialApply ==
    [][(last'.op = "_save_coordinate_changes" /\ ~last'.done)
          => SavedCenters' = SavedCenters]_vars

\* the callers of the AI collaborator
CollaboratorCalls == {"_execute_json_generation", "_execute_ai_edit", "_execute_ai_tag_editing"}

\* the call ended with an exception or without a document
CallFailed(outcome) == outcome.raises # "" \/ outcome.value = JNull

\* C18 (a failing collaborator leaves the editing tier untouched): when the
\* structuring, the free-text edit or the AI tag edit call raises or returns
\* no document, the editing document and has_pending_edits are after the
\* handler what they were before it.
C18_FailedCallKeepsEdits ==
    [][(last'.op \in CollaboratorCalls /\ CallFailed(last'.arg))
          => /\ editingDocument' = editingDocument
             /\ has_pending_edits' = has_pending_edits]_vars

(***************************************************************************)
(* The queries of the store: get_data_statistics and get_all_tags.  They   *)
(* read the document of one tier and change nothing; `last` records the    *)
(* tier that was read and what was returned.                               *)
(***************************************************************************)
\* line 552 / 597: the document the query reads
QueryTier(use_editing) == IF use_editing THEN editingDocument ELSE savedDocument

\* item.get(field, "") and item.get("tags", []) of a stored item
ItemGet(item, field) == IF field \in DOMAIN item THEN item[field] ELSE << >>

\* item.get("center", {}).get(axis, 0)
CenterAxis(item, axis) ==
    IF "center" \in DOMAIN item /\ axis \in DOMAIN item["center"] THEN item["center"][axis] ELSE 0

\* the field each count of lines 570-578 looks at
CountedField ==
    [has_address |-> "address", has_intro |-> "intro", has_name |-> "name",
     has_phone |-> "phone", has_weblink |-> "webLink"]

\* lines 570-578 with `or` in place of `and` in the test of the coordinates
CountsLatOrLng(item, count) ==
    CASE count = "has_coordinates" -> CenterAxis(item, "lat") # 0 \/ CenterAxis(item, "lng") # 0
      [] count = "has_tags" -> ItemGet(item, "tags") # << >>
      [] OTHER -> Strip(ItemGet(item, CountedField[count])) # << >>

\* lines 570-578: the condition under which an item is counted
Counts(item, count) ==
    CASE count = "has_coordinates" -> CenterAxis(item, "lat") # 0 /\ CenterAxis(item, "lng") # 0
      [] count = "has_tags" -> ItemGet(item, "tags") # << >>
      [] OTHER -> Strip(ItemGet(item, CountedField[count])) # << >>

\* sum(1 for item in data_items if ...)
RECURSIVE Sum(_, _)
Sum(data_items, count) ==
    IF data_items = << >> THEN 0
    ELSE (IF Counts(Head(data_items), count) THEN 1 ELSE 0) + Sum(Tail(data_items), count)

\* what get_data_statistics returns for a document
DataStatistics(json_data) ==
    IF json_data.data = << >>
    THEN [has_address |-> 0, has_coordinates |-> 0, has_intro |-> 0, has_name |-> 0,
          has_phone |-> 0, has_tags |-> 0, has_weblink |-> 0, total_locations |-> 0]
    ELSE [has_address |-> Sum(json_data.data, "has_address"),
          has_coordinates |-> Sum(json_data.data, "has_coordinates"),
          has_intro |-> Sum(json_data.data, "has_intro"),
          has_name |-> Sum(json_data.data, "has_name"),
          has_phone |-> Sum(json_data.data, "has_phone"),
          has_tags |-> Sum(json_data.data, "has_tags"),
          has_weblink |-> Sum(json_data.data, "has_weblink"),
          total_locations |-> Len(json_data.data)]

Queried(op, use_editing, result) ==
    [result |-> result, use_editing |-> use_editing] @@ Did(op)

\* DataManager.get_data_statistics(use_editing)
get_data_statistics(use_editing) ==
    /\ last' = Queried("get_data_statistics", use_editing,
                       DataStatistics(QueryTier(use_editing)))
    /\ UNCHANGED extracted_text
    /\ Untouched

\* the order of str: by code point, character by character
CodePoint(c) ==
    CASE c = SP -> 32 [] c = "A" -> 65 [] c = "B" -> 66 [] c = "a" -> 97 [] c = "b" -> 98

RECURSIVE StrLess(_, _)
StrLess(s, t) ==
    IF t = << >> THEN FALSE
    ELSE IF s = << >> THEN TRUE
    ELSE IF Head(s) # Head(t) THEN CodePoint(Head(s)) < CodePoint(Head(t))
    ELSE StrLess(Tail(s), Tail(t))

\* sorted(list(all_tags)) of a set of str
RECURSIVE Sorted(_)
Sorted(all_tags) ==
    IF all_tags = {} THEN << >>
    ELSE LET least == CHOOSE s \in all_tags : \A t \in all_tags \ {s} : StrLess(s, t)
         IN  <<least>> \o Sorted(all_tags \ {least})

\* lines 601-605 for one side of the filter: all_tags.update(tags) of every
\* category whose value is a list
SideTags(filter_data) ==
    UNION {{filter_data[category].l[i].s : i \in 1..Len(filter_data[category].l)} :
              category \in {c \in DOMAIN filter_data : IsList(filter_data[c])}}

\* lines 608-613: the tags of the items, stripped, the blank ones left out
RECURSIVE ItemTags(_)
ItemTags(data_items) ==
    IF data_items = << >> THEN {}
    ELSE LET tags == ItemGet(Head(data_items), "tags")
         IN  {Strip(tags[i]) : i \in {j \in 1..Len(tags) : Strip(tags[j]) # << >>}}
                 \cup ItemTags(Tail(data_items))

\* get_all_tags without lines 601-605: the tags of the items only
AllTagsOfItems(json_data) == Sorted(ItemTags(json_data.data))

\* what get_all_tags returns for a document
AllTags(json_data) ==
    Sorted(SideTags(json_data.filter["inclusive"]) \cup SideTags(json_data.filter["exclusive"])
               \cup ItemTags(json_data.data))

\* DataManager.get_all_tags(use_editing)
get_all_tags(use_editing) ==
    /\ last' = Queried("get_all_tags", use_editing, AllTags(QueryTier(use_editing)))
    /\ UNCHANGED extracted_text
    /\ Untouched

\* an item with every field filled and tags differing in case only, and one with
\* a blank name, no tags and a center on the equator's zero
FilledItem ==
    JDict([address |-> JStr(<<"b">>), center |-> Center(JNum(10), JNum(20)),
           intro |-> JStr(<<"b">>), name |-> JStr(<<"a">>), phone |-> JStr(<<"1">>),
           tags |-> JList(<<JStr(<<"A">>), JStr(<<"a", SP>>)>>),
           webLink |-> JStr(UrlABC), webName |-> JStr(<<"b">>)])

BlankItem == JDict([center |-> Center(JNum(10), JNum(0)), name |-> JStr(<<SP>>)])

\* a filter with tags of its own on both sides, one of them not trimmed, and a
\* category that is no list
MapB == [c |-> JList(<<JStr(<<"b">>), JStr(<<"A", SP>>)>>), d |-> JStr(<<"b">>)]

FilterB == JDict([exclusive |-> JDict([e |-> JList(<<JStr(<<"B">>)>>)]), inclusive |-> JDict(MapB)])

QueryDocuments ==
    LET lists == UNION {[1..n -> {FilledItem, BlankItem}] : n \in 0..MaxRows}
    IN  {FullDocument(data) : data \in lists}
            \cup {With(FullDocument(data), "filter", FilterB) : data \in lists}

QueryNext ==
    \/ \E d \in QueryDocuments : set_saved_json(d)
    \/ \E d \in QueryDocuments : set_editing_json(d)
    \/ \E use_editing \in BOOLEAN : get_data_statistics(use_editing)
    \/ \E use_editing \in BOOLEAN : get_all_tags(use_editing)

QuerySpec == Init /\ [][QueryNext]_vars

\* the number of items of a list with a non-blank text in a field
NonBlank(data, field) == Cardinality({i \in 1..Len(data) : Strip(data[i][field]) # << >>})

\* C19 (statistics): total_locations is the number of items of the document
\* read; each has_X is the number of items whose field X is not blank (has_tags:
\* whose tag list is not empty); has_coordinates is the number of items with
\* lat # 0 and lng # 0; every count lies between 0 and total_locations; and two
\* tiers holding the same document give the same statistics.
C19_Statistics ==
    /\ last.op = "get_data_statistics" =>
           LET data == QueryTier(last.use_editing).data
               n == Len(data)
           IN  /\ last.result.total_locations = n
               /\ last.result.has_name = NonBlank(data, "name")
               /\ last.result.has_address = NonBlank(data, "address")
               /\ last.result.has_phone = NonBlank(data, "phone")
               /\ last.result.has_intro = NonBlank(data, "intro")
               /\ last.result.has_weblink = NonBlank(data, "webLink")
               /\ last.result.has_tags = Cardinality({i \in 1..n : Len(data[i].tags) > 0})
               /\ last.result.has_coordinates =
                      Cardinality({i \in 1..n : data[i].center.lat # 0 /\ data[i].center.lng # 0})
               /\ \A count \in DOMAIN last.result : last.result[count] \in 0..n
               /\ savedDocument = editingDocument =>
                      last.result = DataStatistics(QueryTier(~last.use_editing))
    /\ savedDocument = editingDocument =>
           DataStatistics(QueryTier(TRUE)) = DataStatistics(QueryTier(FALSE))

\* statistics of two items of which one has a name, tags and both coordinates
C19_Witness ==
    /\ last.op = "get_data_statistics"
    /\ last.result.total_locations = 2
    /\ last.result.has_name = 1
    /\ last.result.has_tags = 1
    /\ last.result.has_coordinates = 1
    /\ Cardinality({i \in 1..2 : QueryTier(last.use_editing).data[i].center.lat # 0}) = 2

\* every tag of the lists of one side of a document's filter
TagsOfSide(side) ==
    UNION {{side[c].l[i].s : i \in 1..Len(side[c].l)} :
              c \in {k \in DOMAIN side : side[k].t = "list"}}

MaxPoints == 2

\* n degrees
Deg(n) == n * 1000000

\* n thousandths of a degree
MilliDeg(n) == n * 1000

ZOOM_DISTANCE_MAP ==
    (3 :> 1000000) @@ (4 :> 500000) @@ (5 :> 200000) @@ (6 :> 100000) @@ (7 :> 50000)
        @@ (8 :> 25000) @@ (9 :> 20000) @@ (10 :> 10000) @@ (11 :> 5000) @@ (12 :> 2000)
        @@ (13 :> 1000) @@ (14 :> 500) @@ (15 :> 200) @@ (16 :> 100) @@ (17 :> 50)
        @@ (18 :> 20) @@ (19 :> 10) @@ (20 :> 5)

\* calculate_distance (the Haversine formula of lines 49-63) between the corners
\* the points of PointKinds can give, as the source computes it, in whole metres
calculate_distance(lat1, lng1, lat2, lng2) ==
    CASE lat1 = lat2 /\ lng1 = lng2 -> 0
      [] <<lat1, lat2, lng2 - lng1>> = <<MilliDeg(10000), MilliDeg(10001), 0>> -> 111
      [] <<lat1, lat2, lng2 - lng1>> = <<MilliDeg(10000), MilliDeg(10900), 0>> -> 100075
      [] <<lat1, lat2, lng2 - lng1>> = <<MilliDeg(10001), MilliDeg(10900), 0>> -> 99964
      [] <<lat1, lat2, lng2 - lng1>> = <<MilliDeg(10000), MilliDeg(20000), Deg(10)>> -> 1544758
      [] <<lat1, lat2, lng2 - lng1>> = <<MilliDeg(10001), MilliDeg(20000), Deg(10)>> -> 1544676
      [] <<lat1, lat2, lng2 - lng1>> = <<MilliDeg(10900), MilliDeg(20000), Deg(10)>> -> 1472886

\* lines 84 and 119: the filter of calculate_center and calculate_bounds
ValidPoint(point) ==
    /\ CenterAxis(point, "lat") # 0
    /\ CenterAxis(point, "lng") # 0
    /\ -Deg(90) <= CenterAxis(point, "lat") /\ CenterAxis(point, "lat") <= Deg(90)
    /\ -Deg(180) <= CenterAxis(point, "lng") /\ CenterAxis(point, "lng") <= Deg(180)

\* line 152: the filter of calculate_zoom_level
HasLat(point) == CenterAxis(point, "lat") # 0

\* lines 76-85 and 111-120: valid_points
RECURSIVE ValidPoints(_)
ValidPoints(points) ==
    IF points = << >> THEN << >>
    ELSE (IF ValidPoint(Head(points))
          THEN <<[lat |-> CenterAxis(Head(points), "lat"), lng |-> CenterAxis(Head(points), "lng")]>>
          ELSE << >>) \o ValidPoints(Tail(points))

\* the points line 152 keeps
RECURSIVE PointsWithLat(_)
PointsWithLat(points) ==
    IF points = << >> THEN << >>
    ELSE (IF HasLat(Head(points))
          THEN <<[lat |-> CenterAxis(Head(points), "lat"), lng |-> CenterAxis(Head(points), "lng")]>>
          ELSE << >>) \o PointsWithLat(Tail(points))

\* sum(point[axis] for point in valid_points)
RECURSIVE Total(_, _)
Total(valid_points, axis) ==
    IF valid_points = << >> THEN 0 ELSE Head(valid_points)[axis] + Total(Tail(valid_points), axis)

RECURSIVE Gcd(_, _)
Gcd(a, b) == IF b = 0 THEN a ELSE Gcd(b, a % b)

Abs(n) == IF n < 0 THEN -n ELSE n

\* total / count, in lowest terms
Quotient(total, count) ==
    [den |-> count \div Gcd(Abs(total), count), num |-> total \div Gcd(Abs(total), count)]

\* the value of a whole number of millionths of a degree
Exactly(n) == Quotient(n, 1)

None == JNull

\* the mean of lines 91-98 over the points a filter kept
MeanOf(valid_points) ==
    IF valid_points = << >> THEN None
    ELSE [lat |-> Quotient(Total(valid_points, "lat"), Len(valid_points)),
          lng |-> Quotient(Total(valid_points, "lng"), Len(valid_points))]

\* calculate_center with the filter of line 152 in place of the one of line 84
calculate_center_of_lat(points) == MeanOf(PointsWithLat(points))

\* MapUtils.calculate_center(points)
calculate_center(points) == MeanOf(ValidPoints(points))

\* min(...) and max(...) of one axis of a list that is not empty
Least(valid_points, axis) ==
    CHOOSE v \in {valid_points[i][axis] : i \in 1..Len(valid_points)} :
        \A i \in 1..Len(valid_points) : v <= valid_points[i][axis]

Greatest(valid_points, axis) ==
    CHOOSE v \in {valid_points[i][axis] : i \in 1..Len(valid_points)} :
        \A i \in 1..Len(valid_points) : v >= valid_points[i][axis]

\* MapUtils.calculate_bounds(points)
calculate_bounds(points) ==
    LET valid_points == ValidPoints(points)
    IN  IF valid_points = << >> THEN None
        ELSE [max_lat |-> Greatest(valid_points, "lat"), max_lng |-> Greatest(valid_points, "lng"),
              min_lat |-> Least(valid_points, "lat"), min_lng |-> Least(valid_points, "lng")]

\* lines 157-163 with padding_factor = 1.5: required_distance, in whole metres
RequiredDistance(bounds) ==
    (3 * calculate_distance(bounds.min_lat, bounds.min_lng, bounds.max_lat, bounds.max_lng)) \div 2

Max(a, b) == IF a >= b THEN a ELSE b

Min(a, b) == IF a <= b THEN a ELSE b

\* lines 167-171: the scan of the table from zoom_level upwards
RECURSIVE ScanFrom(_, _)
ScanFrom(zoom_level, required_distance) ==
    IF zoom_level \notin DOMAIN ZOOM_DISTANCE_MAP THEN 15
    ELSE IF required_distance <= ZOOM_DISTANCE_MAP[zoom_level] THEN Max(10, zoom_level)
    ELSE ScanFrom(zoom_level + 1, required_distance)

\* MapUtils.calculate_zoom_level(points)
calculate_zoom_level(points) ==
    IF calculate_bounds(points) = None THEN 15
    ELSE IF Len(PointsWithLat(points)) <= 1 THEN 16
    ELSE ScanFrom(3, RequiredDistance(calculate_bounds(points)))

\* the default center of line 193
FallbackCenter == [lat |-> Exactly(31230416), lng |-> Exactly(121473701)]

\* calculate_map_config without lines 203-204
calculate_map_config_unordered(points, initial_zoom_offset, min_zoom_offset, max_zoom_offset) ==
    LET base_zoom == calculate_zoom_level(points)
    IN  [center |-> IF calculate_center(points) = None THEN FallbackCenter
                    ELSE calculate_center(points),
         zoom |-> <<Max(3, Min(20, base_zoom + initial_zoom_offset)),
                    Max(3, Min(20, base_zoom + min_zoom_offset)),
                    Max(3, Min(20, base_zoom + max_zoom_offset))>>]

\* MapUtils.calculate_map_config(points, initial_zoom_offset, min_zoom_offset,
\* max_zoom_offset)
calculate_map_config(points, initial_zoom_offset, min_zoom_offset, max_zoom_offset) ==
    LET base_zoom == calculate_zoom_level(points)
        initial_zoom == Max(3, Min(20, base_zoom + initial_zoom_offset))
        min_zoom == Max(3, Min(20, base_zoom + min_zoom_offset))
        max_zoom == Max(3, Min(20, base_zoom + max_zoom_offset))
    IN  [center |-> IF calculate_center(points) = None THEN FallbackCenter
                    ELSE calculate_center(points),
         zoom |-> <<initial_zoom, Min(min_zoom, initial_zoom), Max(max_zoom, initial_zoom)>>]

\* a point at the given thousandths of a degree
PointAt(lat, lng) == [center |-> [lat |-> MilliDeg(lat), lng |-> MilliDeg(lng)]]

\* four valid points (111 m, 100 km and 1545 km from the first), and the
\* invalid ones: no coordinates, no lng, no lat, lat out of range, no center
PointKinds ==
    { PointAt(10000, 20000), PointAt(10001, 20000), PointAt(10900, 20000), PointAt(20000, 30000),
      PointAt(0, 0), PointAt(10000, 0), PointAt(0, 20000), PointAt(95000, 20000),
      [name |-> <<"a">>] }

PointLists == UNION {[1..n -> PointKinds] : n \in 0..MaxPoints}

ZoomOffsets == {-20, -1, 0, 5}

MapOps == {"calculate_center", "calculate_bounds", "calculate_zoom_level", "calculate_map_config"}

\* the points and offsets a map function is called with
MapInit ==
    /\ extracted_text = << >>
    /\ saved_json = 1
    /\ editing_json = 2
    /\ has_pending_edits = FALSE
    /\ docs = [i \in DRef |-> IF i = 1 THEN _create_empty_json(JRef(1), JRef(2))
                              ELSE _create_empty_json(JRef(3), JRef(4))]
    /\ maps = [i \in MRef |-> EmptyMap]
    /\ \E points \in PointLists, i \in ZoomOffsets, mn \in ZoomOffsets, mx \in ZoomOffsets :
           last = [initial_zoom_offset |-> i, max_zoom_offset |-> mx, min_zoom_offset |-> mn,
                   op |-> "points", points |-> points, result |-> None]

MapResult(op) ==
    CASE op = "calculate_center" -> calculate_center(last.points)
      [] op = "calculate_bounds" -> calculate_bounds(last.points)
      [] op = "calculate_zoom_level" -> calculate_zoom_level(last.points)
      [] op = "calculate_map_config" ->
             calculate_map_config(last.points, last.initial_zoom_offset, last.min_zoom_offset,
                                  last.max_zoom_offset)

\* a call of one of the map functions with the points and offsets at hand
MapCall(op) ==
    /\ last' = [last EXCEPT !.op = op, !.result = MapResult(op)]
    /\ UNCHANGED extracted_text
    /\ Untouched

MapNext == \E op \in MapOps : MapCall(op)

MapSpec == MapInit /\ [][MapNext]_vars

\* the positions of the valid points of a list: lat and lng not zero and in range
ValidAt(points) == {i \in 1..Len(points) : ValidPoint(points[i])}

\* C22 (degenerate viewports): with no valid point the base zoom is 15 and the
\* center of the map configuration is the fallback coordinate; with exactly one
\* valid point, whatever invalid points come with it, the base zoom is 16.
C22_DegenerateViewport ==
    /\ (last.op = "calculate_zoom_level" /\ Cardinality(ValidAt(last.points)) = 0)
           => last.result = 15
    /\ (last.op = "calculate_map_config" /\ Cardinality(ValidAt(last.points)) = 0)
           => last.result.center = FallbackCenter
    /\ (last.op = "calculate_zoom_level" /\ Cardinality(ValidAt(last.points)) = 1)
           => last.result = 16

\* the levels of the table whose capacity is at least the distance
Sufficient(required_distance) ==
    {z \in DOMAIN ZOOM_DISTANCE_MAP : ZOOM_DISTANCE_MAP[z] >= required_distance}

\* of these, the level with the smallest capacity
Tightest(required_distance) ==
    CHOOSE z \in Sufficient(required_distance) :
        \A y \in Sufficient(required_distance) : ZOOM_DISTANCE_MAP[z] <= ZOOM_DISTANCE_MAP[y]

\* C23 (zoom table lookup): the capacities of the table decrease strictly with
\* the level, and for two or more valid points whose required distance
\* (diagonal x 1.5) the table can hold, the zoom level is the level with the
\* smallest capacity that is at least the required distance, but not below 10.
C23_ZoomTableLookup ==
    /\ \A z \in 3..19 : ZOOM_DISTANCE_MAP[z] > ZOOM_DISTANCE_MAP[z + 1]
    /\ (/\ last.op = "calculate_zoom_level"
        /\ Cardinality(ValidAt(last.points)) >= 2
        /\ Sufficient(RequiredDistance(calculate_bounds(last.points))) # {})
           => last.result = Max(10, Tightest(RequiredDistance(calculate_bounds(last.points))))

\* the lists of two or more valid points
SpreadLists == {points \in PointLists : Cardinality(ValidAt(points)) >= 2}

\* the distance between the corners of the bounds of a list
Span(points) ==
    LET bounds == calculate_bounds(points)
    IN  calculate_distance(bounds.min_lat, bounds.min_lng, bounds.max_lat, bounds.max_lng)

\* C24 (zoom responds to span): two valid points about 100 km apart get a base
\* zoom strictly lower than two valid points about 100 m apart, and a list of
\* valid points whose span is at least that of another never gets a higher
\* base zoom than the other.
C24_ZoomRespondsToSpan ==
    (last.op = "calculate_zoom_level" /\ last.points \in SpreadLists) =>
        \A others \in SpreadLists :
            /\ Span(others) >= Span(last.points)
                   => calculate_zoom_level(others) <= last.result
            /\ (Span(others) \in 99000..101000 /\ Span(last.points) \in 99..111)
                   => calculate_zoom_level(others) < last.result

\* C25 (zoom triple): the map configuration's [initial, min, max] has
\* min <= initial <= max, the three of them in 3..20, and initial is the base
\* zoom plus the initial offset brought into 3..20.
C25_ZoomTriple ==
    last.op = "calculate_map_config" =>
        LET zoom == last.result.zoom
            base == calculate_zoom_level(last.points) + last.initial_zoom_offset
        IN  /\ zoom[2] <= zoom[1] /\ zoom[1] <= zoom[3]
            /\ \A i \in 1..3 : zoom[i] \in 3..20
            /\ zoom[1] = (IF base < 3 THEN 3 ELSE IF base > 20 THEN 20 ELSE base)

\* the min offset above the initial one and the max offset below it
C25_Witness ==
    /\ last.op = "calculate_map_config"
    /\ last.min_zoom_offset = 5
    /\ last.initial_zoom_offset = -1
    /\ last.max_zoom_offset = -20
    /\ last.result.zoom = <<15, 15, 15>>

\* the sum of one axis over positions of a list
RECURSIVE SumAt(_, _, _)
SumAt(points, at, axis) ==
    IF at = {} THEN 0
    ELSE LET i == CHOOSE i \in at : TRUE
         IN  points[i].center[axis] + SumAt(points, at \ {i}, axis)

\* the valid points of a list, in their order
RECURSIVE OnlyValid(_)
OnlyValid(points) ==
    IF points = << >> THEN << >>
    ELSE (IF ValidPoint(Head(points)) THEN <<Head(points)>> ELSE << >>) \o OnlyValid(Tail(points))

ExportValue(key, value) ==
    IF key = "center" THEN value
    ELSE IF key = "tags" THEN CleanTagSeq([i \in 1..Len(value) |-> JStr(value[i])])
    ELSE clean_text(value)

\* line 528: not value
Falsy(key, value) == IF key = "center" THEN DOMAIN value = {} ELSE value = << >>

\* lines 515-531 with line 528 left out: every key is kept
ExportedItemWithEmpty(item, remove_empty) == [k \in DOMAIN item |-> ExportValue(k, item[k])]

\* lines 515-531: cleaned_item
ExportedItem(item, remove_empty) ==
    [k \in {key \in DOMAIN item : ~(remove_empty /\ Falsy(key, ExportValue(key, item[key])))} |->
        ExportValue(k, item[k])]

\* lines 513-540: cleaned_data
RECURSIVE CleanedData(_, _, _)
CleanedData(data, remove_empty, remove_zero_coords) ==
    IF data = << >> THEN << >>
    ELSE LET cleaned_item == ExportedItem(Head(data), remove_empty)
             skipped == \/ /\ remove_zero_coords
                           /\ CenterAxis(cleaned_item, "lat") = 0
                           /\ CenterAxis(cleaned_item, "lng") = 0
                        \/ DOMAIN cleaned_item = {}
         IN  (IF skipped THEN << >> ELSE <<cleaned_item>>)
                 \o CleanedData(Tail(data), remove_empty, remove_zero_coords)

\* lines 511-543, result being the object the data is assigned to: what is
\* returned, and the heap after line 542
ExportInto(result, use_editing, remove_empty, remove_zero_coords) ==
    \E D \in {(result.ref :> [result.doc EXCEPT
                                 !.data = CleanedData(@, remove_empty, remove_zero_coords)])
                  @@ docs} :
        /\ Heap(saved_json, editing_json, D, result.maps)
        /\ last' = [remove_empty |-> remove_empty, remove_zero_coords |-> remove_zero_coords,
                    result |-> Resolve(D, result.maps, result.ref),
                    use_editing |-> use_editing] @@ Did("_prepare_export_data")
        /\ UNCHANGED <<extracted_text, has_pending_edits>>

\* _prepare_export_data without the deep copy of line 511
_prepare_export_data_in_place(use_editing, remove_empty, remove_zero_coords) ==
    ExportInto(JsonAlias(IF use_editing THEN editing_json ELSE saved_json),
               use_editing, remove_empty, remove_zero_coords)

\* DataManager._prepare_export_data(json_data, remove_empty, remove_zero_coords),
\* json_data being the document of a tier
_prepare_export_data(use_editing, remove_empty, remove_zero_coords) ==
    ExportInto(JsonCopy(IF use_editing THEN editing_json ELSE saved_json),
               use_editing, remove_empty, remove_zero_coords)

\* the items of a stored document as the points of the map functions: the
\* store's whole degrees in the fixed-point numbers of the map functions
MapPoints(data) ==
    [i \in 1..Len(data) |->
        [k \in DOMAIN data[i] |->
            IF k = "center" THEN [a \in DOMAIN data[i][k] |-> Deg(data[i][k][a])]
            ELSE data[i][k]]]

\* calculate_map_center_and_zoom with `points` left empty
calculate_map_center_and_zoom_of_nothing(use_editing) ==
    /\ last' = Queried("calculate_map_center_and_zoom", use_editing,
                       calculate_map_config(<< >>, 0, -1, 5))
    /\ UNCHANGED extracted_text
    /\ Untouched

\* calculate_map_center_and_zoom(json_data) with its default offsets, json_data
\* being the document of a tier
calculate_map_center_and_zoom(use_editing) ==
    /\ last' = Queried("calculate_map_center_and_zoom", use_editing,
                       calculate_map_config(MapPoints(QueryTier(use_editing).data), 0, -1, 5))
    /\ UNCHANGED extracted_text
    /\ Untouched

\* documents of items with every field filled and with fields empty and no
\* coordinates
ExportDocuments ==
    {FullDocument(data) : data \in UNION {[1..n -> {FilledItem, Place}] : n \in 0..MaxRows}}

ExportNext ==
    \/ \E d \in ExportDocuments : set_saved_json(d)
    \/ \E d \in ExportDocuments : set_editing_json(d)
    \/ set_extracted_text(<<"a">>)
    \/ \E use_editing \in BOOLEAN : get_data_statistics(use_editing)
    \/ \E use_editing \in BOOLEAN : get_all_tags(use_editing)
    \/ \E use_editing \in BOOLEAN, remove_empty \in BOOLEAN, remove_zero_coords \in BOOLEAN :
           _prepare_export_data(use_editing, remove_empty, remove_zero_coords)
    \/ \E use_editing \in BOOLEAN : calculate_map_center_and_zoom(use_editing)

ExportSpec == Init /\ [][ExportNext]_vars

Projections ==
    {"get_data_statistics", "get_all_tags", "_prepare_export_data", "calculate_map_center_and_zoom"}

\* C21 (projections are pure): the statistics, the tags, the export and the map
\* configuration of either tier leave the extracted text, the saved document,
\* the editing document and has_pending_edits unchanged.
C21_ProjectionsArePure ==
    [][last'.op \in Projections
          => /\ extracted_text' = extracted_text
             /\ savedDocument' = savedDocument
             /\ editingDocument' = editingDocument
             /\ has_pending_edits' = has_pending_edits]_vars

\* an export that removed keys and items while text, documents that differ and
\* pending edits were there
C21_Witness ==
    /\ last.op = "_prepare_export_data"
    /\ last.remove_empty /\ last.remove_zero_coords
    /\ Len(last.result.data) < Len(QueryTier(last.use_editing).data)
    /\ extracted_text # << >>
    /\ savedDocument # editingDocument
    /\ has_pending_edits

\* the position in data of the i-th of the items at the positions kept
NthOf(kept, i) == CHOOSE j \in kept : Cardinality({k \in kept : k < j}) = i - 1

\* C27 (export filtering): with remove_empty no exported item has a key whose
\* cleaned value is an empty string or an empty list; with remove_zero_coords
\* no exported item has the center (0,0); the exported items are the items of
\* the source that were not dropped, in their order; name, description, origin
\* and filter are those of the source.
C27_ExportFiltering ==
    last.op = "_prepare_export_data" =>
        LET source == QueryTier(last.use_editing)
            exported == last.result
            kept == {j \in 1..Len(source.data) :
                        ~(last.remove_zero_coords /\ source.data[j].center = [lat |-> 0, lng |-> 0])}
        IN  /\ last.remove_empty =>
                   \A i \in 1..Len(exported.data) : \A k \in DOMAIN exported.data[i] :
                       exported.data[i][k] # << >>
            /\ last.remove_zero_coords =>
                   \A i \in 1..Len(exported.data) :
                       exported.data[i].center # [lat |-> 0, lng |-> 0]
            /\ Len(exported.data) = Cardinality(kept)
            /\ \A i \in 1..Len(exported.data) :
                   LET item == source.data[NthOf(kept, i)]
                   IN  /\ DOMAIN exported.data[i] \subseteq DOMAIN item
                       /\ \A k \in DOMAIN item :
                              \/ k \in DOMAIN exported.data[i]
                                     /\ exported.data[i][k] = ExportValue(k, item[k])
                              \/ k \notin DOMAIN exported.data[i]
                                     /\ last.remove_empty /\ ExportValue(k, item[k]) = << >>
            /\ exported.name = source.name
            /\ exported.description = source.description
            /\ exported.origin = source.origin
            /\ exported.filter = source.filter

\* an item without a phone and without coordinates exported after one with both,
\* without its phone key
C27_Witness ==
    /\ last.op = "_prepare_export_data"
    /\ last.remove_empty /\ ~last.remove_zero_coords
    /\ Len(last.result.data) = 2
    /\ "phone" \in DOMAIN last.result.data[1]
    /\ "phone" \notin DOMAIN last.result.data[2]
    /\ last.result.data[2].center = [lat |-> 0, lng |-> 0]
    /\ QueryTier(last.use_editing).data[2].phone = << >>

(***************************************************************************)
(* The import of a document in its several shapes, followed by the update  *)
(* of coordinates and the projections of the saved document.               *)
(***************************************************************************)
\* DataManager.has_saved_json()
has_saved_json == docs[saved_json].data # << >>

\* an item with a name, an address and the center (0,0)
CafeItem ==
    JDict([address |-> JStr(<<"b">>), center |-> Center(JNum(0), JNum(0)), name |-> JStr(<<"a">>)])

CafeText == JsonText(JDict([data |-> JList(<<CafeItem>>)]))

\* the shapes of an import: bare arrays, a bare data, documents with some of the
\* metadata, a whole document
ShapeTexts ==
    { JsonText(JList(<< >>)),
      JsonText(JList(<<CafeItem>>)),
      JsonText(JList(<<Place, CafeItem>>)),
      CafeText,
      JsonText(JDict([data |-> JList(<<CafeItem, Place>>), name |-> JStr(<<SP, "t", SP>>)])),
      JsonText(JDict([data |-> JList(<<Place>>),
                      filter |-> JDict([exclusive |-> JDict(EmptyMap), inclusive |-> JDict(MapA)]),
                      origin |-> JStr(<<"t">>)])),
      JsonText(FullDocument(<<Place>>)) }

\* what a resolution of an address returns: a coordinate in range, one out of range
ResolvedCoordinates == {<<31, 121>>, <<95, 10>>}

ScenarioNext ==
    \/ \E json_input \in ShapeTexts : _import_json_data(json_input)
    \/ \E index \in 0..1, c \in ResolvedCoordinates, use_editing \in BOOLEAN :
           update_coordinates(index, c[1], c[2], use_editing)
    \/ start_editing
    \/ \E use_editing \in BOOLEAN : get_data_statistics(use_editing)
    \/ \E use_editing \in BOOLEAN : calculate_map_center_and_zoom(use_editing)

ScenarioSpec == Init /\ [][ScenarioNext]_vars

\* the saved document of the scenario: the imported item with a center
CafeSaved(center) ==
    [EmptyDocument EXCEPT
        !.data = <<[EmptyDataItem EXCEPT !.name = <<"a">>, !.address = <<"b">>, !.center = center]>>]

NoCoordinate == [lat |-> 0, lng |-> 0]

ValidCoordinate == [lat |-> 31, lng |-> 121]

\* C28 (end to end): the import of a bare {"data": [item with name, address and
\* center (0,0)]} is stored, has_saved_json() holds and the statistics give one
\* location and no coordinates; updating the item's center changes nothing else;
\* and with the item's center at a valid coordinate the statistics count one
\* item with coordinates and the center of the map configuration is that
\* coordinate.
C28_EndToEnd ==
    /\ [](/\ (last.op = "_import_json_data" /\ last.arg = CafeText)
                 => /\ last.done
                    /\ has_saved_json
                    /\ savedDocument = CafeSaved(NoCoordinate)
                    /\ DataStatistics(savedDocument).total_locations = 1
                    /\ DataStatistics(savedDocument).has_coordinates = 0
          /\ (/\ last.op = "get_data_statistics" /\ ~last.use_editing
              /\ savedDocument = CafeSaved(NoCoordinate))
                 => last.result.total_locations = 1 /\ last.result.has_coordinates = 0
          /\ (/\ last.op = "get_data_statistics" /\ ~last.use_editing
              /\ savedDocument = CafeSaved(ValidCoordinate))
                 => last.result.total_locations = 1 /\ last.result.has_coordinates = 1
          /\ (/\ last.op = "calculate_map_center_and_zoom" /\ ~last.use_editing
              /\ savedDocument = CafeSaved(ValidCoordinate))
                 => last.result.center = [lat |-> Exactly(Deg(31)), lng |-> Exactly(Deg(121))])
    /\ [][(/\ savedDocument = CafeSaved(NoCoordinate)
           /\ last'.op = "update_coordinates"
           /\ savedDocument' # savedDocument)
              => \E c \in ResolvedCoordinates :
                     savedDocument' = CafeSaved([lat |-> c[1], lng |-> c[2]])]_vars

\* the map configuration of the imported item after its center was updated to a
\* valid coordinate
C28_Witness ==
    /\ last.op = "calculate_map_center_and_zoom"
    /\ ~last.use_editing
    /\ extracted_text = clean_text(ImportedNote(1))
    /\ savedDocument = CafeSaved(ValidCoordinate)
    /\ last.result.center = [lat |-> Exactly(Deg(31)), lng |-> Exactly(Deg(121))]

\* the items and the keys of what an import was given
GivenData(json) == IF json.t = "list" THEN json.l ELSE json.d["data"].l

GivenKeys(json) == IF json.t = "list" THEN {"data"} ELSE DOMAIN json.d

\* C29 (import shapes): a bare array is imported as the data of a document; an
\* import that gives data but not all of name, description, origin and filter
\* stores a saved document whose missing name, description and origin are
\* empty strings and whose missing filter is {inclusive: {}, exclusive: {}},
\* with the normalized items of the input as data, in their order.
C29_ImportShapes ==
    (last.op = "_import_json_data" /\ last.arg \in ShapeTexts) =>
        LET json == last.arg.json
            items == GivenData(json)
        IN  /\ last.done
            /\ savedDocument.data = [i \in 1..Len(items) |-> _clean_data_item(items[i]).item]
            /\ \A k \in {"name", "description", "origin"} \ GivenKeys(json) :
                   savedDocument[k] = << >>
            /\ "filter" \notin GivenKeys(json) =>
                   savedDocument.filter = [exclusive |-> EmptyMap, inclusive |-> EmptyMap]
            /\ json.t = "list" =>
                   savedDocument = [EmptyDocument EXCEPT !.data = savedDocument.data]

\* a bare array of two items was imported
C29_Witness ==
    /\ last.op = "_import_json_data"
    /\ last.arg.json.t = "list"
    /\ last.done
    /\ Len(savedDocument.data) = 2
    /\ savedDocument.data[1].tags = <<TagA>>
    /\ savedDocument.data[2].address = <<"b">>
    /\ savedDocument.name = << >>

(***************************************************************************)
(* The resets of the sidebar, with a text, documents and pending edits to  *)
(* reset.                                                                  *)
(***************************************************************************)
ResetDocuments ==
    {FullDocument(data) : data \in {<< >>, <<Place>>, <<PlaceAt(Center(JNum(10), JNum(20)))>>}}
        \cup {JDict([data |-> JList(<<Place>>)])}

ResetNext ==
    \/ \E d \in ResetDocuments : set_saved_json(d)
    \/ \E d \in ResetDocuments : set_editing_json(d)
    \/ set_extracted_text(<<"a">>)
    \/ start_editing
    \/ reset_all_data
    \/ reset_saved_json
    \/ reset_editing_json

ResetSpec == Init /\ [][ResetNext]_vars

\* C30 (reset): reset_all_data leaves the extracted text empty, both documents
\* the empty document and has_pending_edits false; reset_saved_json makes the
\* saved document the empty document and the flag false and leaves the
\* extracted text and the editing document as they were; after either,
\* has_saved_json() is false.
C30_Reset ==
    [][/\ last'.op = "reset_all_data"
           => /\ extracted_text' = << >>
              /\ savedDocument' = EmptyDocument
              /\ editingDocument' = EmptyDocument
              /\ ~has_pending_edits'
              /\ ~has_saved_json'
       /\ last'.op = "reset_saved_json"
           => /\ savedDocument' = EmptyDocument
              /\ ~has_pending_edits'
              /\ extracted_text' = extracted_text
              /\ editingDocument' = editingDocument
              /\ ~has_saved_json']_vars

\* the saved document was reset while a text, an editing document and pending
\* edits were there
C30_Witness ==
    /\ last.op = "reset_saved_json"
    /\ last.after = "set_editing_json"
    /\ extracted_text # << >>
    /\ editingDocument # EmptyDocument
    /\ savedDocument = EmptyDocument
    /\ ~has_pending_edits

(***************************************************************************)
(* The geocoding service (class GeocodingService).  A backend is what      *)
(* _geocode_amap / _geocode_tencent do on one call: they return a result   *)
(* of their own, or an exception they do not catch leaves them.            *)
(***************************************************************************)
\* self.max_retries
max_retries == 3

\* the result dict of a backend and of _geocode_address
GeoResult(success, lat, lng, error) ==
    [error |-> error, lat |-> lat, lng |-> lng, success |-> success]

\* what one call of the backend ends with
Found(lat, lng) == [kind |-> "returns", result |-> GeoResult(TRUE, lat, lng, << >>)]

NotFound(error) == [kind |-> "returns", result |-> GeoResult(FALSE, 0, 0, error)]

Throws(exc) == [kind |-> "raises", result |-> GeoResult(FALSE, 0, 0, exc)]

\* lines 112-117, 147-152 and 157-162: the results _geocode_address makes itself
EmptyAddress == GeoResult(FALSE, 0, 0, <<"empty_address">>)

RequestException(exc) == GeoResult(FALSE, 0, 0, <<"request_exception">> \o exc)

AllRetriesFailed == GeoResult(FALSE, 0, 0, <<"all_retries_failed">>)

\* the body of the loop without lines 138-139 and 146-152: the last attempt
\* goes on as the others do
AttemptContinuing(attempt, outcome) ==
    IF outcome.kind = "returns" /\ outcome.result.success
    THEN [result |-> outcome.result, returned |-> TRUE]
    ELSE [result |-> outcome.result, returned |-> FALSE]

\* lines 121-154, the body of the loop for one attempt: does it return, and what
Attempt(attempt, outcome) ==
    IF outcome.kind = "raises"
    THEN (IF attempt = max_retries - 1
          THEN [result |-> RequestException(outcome.result.error), returned |-> TRUE]
          ELSE [result |-> outcome.result, returned |-> FALSE])
    ELSE IF outcome.result.success
    THEN [result |-> outcome.result, returned |-> TRUE]
    ELSE IF attempt = max_retries - 1
    THEN [result |-> outcome.result, returned |-> TRUE]
    ELSE [result |-> outcome.result, returned |-> FALSE]

\* `last` while _geocode_address runs: the attempt the loop is at, the outcomes
\* of the backend calls made so far, and where the function is
Geocoding(address, attempt, calls, pc, result) ==
    [address |-> address, attempt |-> attempt, calls |-> calls, op |-> "_geocode_address",
     pc |-> pc, result |-> result]

InLoop == last.op = "_geocode_address" /\ last.pc = "loop"

\* lines 109-120: the call, up to the first iteration of the loop
_geocode_address_enter(address) ==
    /\ ~InLoop
    /\ last' = IF clean_text(address) = << >>
               THEN Geocoding(address, 0, << >>, "returned", EmptyAddress)
               ELSE IF 0 < max_retries
               THEN Geocoding(address, 0, << >>, "loop", EmptyAddress)
               ELSE Geocoding(address, 0, << >>, "fell_through", AllRetriesFailed)
    /\ UNCHANGED <<extracted_text, saved_json, editing_json, has_pending_edits, docs, maps>>

\* one iteration of the loop of line 120, the backend ending with `outcome`
_geocode_address_attempt(outcome) ==
    /\ InLoop
    /\ \E a \in {Attempt(last.attempt, outcome)} :
           last' = IF a.returned
                   THEN Geocoding(last.address, last.attempt, Append(last.calls, outcome),
                                  "returned", a.result)
                   ELSE IF last.attempt + 1 < max_retries
                   THEN Geocoding(last.address, last.attempt + 1, Append(last.calls, outcome),
                                  "loop", last.result)
                   ELSE Geocoding(last.address, last.attempt + 1, Append(last.calls, outcome),
                                  "fell_through", AllRetriesFailed)
    /\ UNCHANGED <<extracted_text, saved_json, editing_json, has_pending_edits, docs, maps>>

\* the addresses of a query: empty, blank, two that clean to a text
GeoAddresses == {<< >>, <<SP>>, <<"a">>, <<SP, "b">>}

\* a coordinate, the coordinate (0,0) as a success, two refusals, two exceptions
BackendOutcomes ==
    { Found(31, 121), Found(0, 0), NotFound(<<"e1">>), NotFound(<<"e2">>),
      Throws(<<"x">>), Throws(<<"y">>) }

RetryNext ==
    \/ \E address \in GeoAddresses : _geocode_address_enter(address)
    \/ \E outcome \in BackendOutcomes : _geocode_address_attempt(outcome)

\* every backend call ends (requests.get has a timeout), so the loop goes on
RetrySpec ==
    /\ Init
    /\ [][RetryNext]_vars
    /\ WF_vars(\E outcome \in BackendOutcomes : _geocode_address_attempt(outcome))

Succeeded(outcome) == outcome.kind = "returns" /\ outcome.result.success

\* C37 (bounded retry): _geocode_address makes at most max_retries backend
\* calls for one query and none after a successful one; it returns the
\* successful result, or after the last attempt that attempt's failure (an
\* exception as a failure result); the final return after the loop is never
\* reached; and a call that entered the loop returns.
C37_BoundedRetry ==
    /\ [](last.op = "_geocode_address"
            => /\ Len(last.calls) <= max_retries
               /\ last.pc # "fell_through"
               /\ \A i \in 1..(Len(last.calls) - 1) : ~Succeeded(last.calls[i])
               /\ last.pc = "loop"
                     => /\ Len(last.calls) < max_retries
                        /\ \A i \in 1..Len(last.calls) : ~Succeeded(last.calls[i])
               /\ (last.pc = "returned" /\ last.calls # << >>)
                     => LET final == last.calls[Len(last.calls)]
                        IN  /\ Succeeded(final) \/ Len(last.calls) = max_retries
                            /\ last.result =
                                  IF final.kind = "raises"
                                  THEN RequestException(final.result.error)
                                  ELSE final.result)
    /\ (InLoop ~> (last.op = "_geocode_address" /\ last.pc = "returned"))

\* three refusals: the third one is what the function returns
C37_Witness ==
    /\ last.op = "_geocode_address"
    /\ last.pc = "returned"
    /\ last.calls = <<NotFound(<<"e1">>), Throws(<<"x">>), NotFound(<<"e2">>)>>
    /\ last.result = GeoResult(FALSE, 0, 0, <<"e2">>)

(***************************************************************************)
(* GeocodingService.get_coordinates.  Seen from its caller the backend is  *)
(* a function: backend[text][k] is what the k-th backend call for the      *)
(* cleaned query `text` ends with.                                         *)
(***************************************************************************)
\* the loop of line 120 from `attempt` on, and the return of lines 157-162
RECURSIVE Retry(_, _)
Retry(attempt, answers) ==
    IF attempt >= max_retries THEN AllRetriesFailed
    ELSE IF Attempt(attempt, answers[attempt + 1]).returned
    THEN Attempt(attempt, answers[attempt + 1]).result
    ELSE Retry(attempt + 1, answers)

\* _geocode_address(address) as a function of the backend
_geocode_address(address, backend) ==
    IF clean_text(address) = << >> THEN EmptyAddress
    ELSE Retry(0, backend[clean_text(address)])

\* lines 81 and 90: result["success"] and result["lat"] != 0 and result["lng"] != 0
Usable(result) == result.success /\ result.lat # 0 /\ result.lng # 0

Coords(result) == [lat |-> result.lat, lng |-> result.lng]

\* what get_coordinates gives: the coordinate or None, and the texts it called
\* _geocode_address with, in the order of the calls
Resolved(coords, queries) == [coords |-> coords, queries |-> queries]

\* get_coordinates with line 74 the other way round: the name preferred
get_coordinates_name_first(name, address, backend) ==
    LET search_text == IF Strip(name) # << >> THEN Strip(name) ELSE Strip(address)
        result == _geocode_address(search_text, backend)
        other == _geocode_address(Strip(address), backend)
    IN  IF search_text = << >> THEN Resolved(None, << >>)
        ELSE IF Usable(result) THEN Resolved(Coords(result), <<search_text>>)
        ELSE IF Strip(address) # << >> /\ Strip(name) # << >> /\ Strip(address) # Strip(name)
        THEN Resolved(IF Usable(other) THEN Coords(other) ELSE None,
                      <<search_text, Strip(address)>>)
        ELSE Resolved(None, <<search_text>>)

\* GeocodingService.get_coordinates(name, address)
get_coordinates(name, address, backend) ==
    LET search_text == IF Strip(address) # << >> THEN Strip(address) ELSE Strip(name)
        result == _geocode_address(search_text, backend)
        by_name == _geocode_address(Strip(name), backend)
    IN  IF search_text = << >> THEN Resolved(None, << >>)
        ELSE IF Usable(result) THEN Resolved(Coords(result), <<search_text>>)
        ELSE IF Strip(address) # << >> /\ Strip(name) # << >> /\ Strip(address) # Strip(name)
        THEN Resolved(IF Usable(by_name) THEN Coords(by_name) ELSE None,
                      <<search_text, Strip(name)>>)
        ELSE Resolved(None, <<search_text>>)

\* what the three calls for one text end with: a coordinate at once, a
\* coordinate at the third call, three refusals, (0,0) reported as a success,
\* a success without latitude, three exceptions
AnswerRuns ==
    { <<Found(31, 121), NotFound(<<"e1">>), NotFound(<<"e1">>)>>,
      <<NotFound(<<"e1">>), Throws(<<"x">>), Found(10, 20)>>,
      <<NotFound(<<"e1">>), NotFound(<<"e1">>), NotFound(<<"e2">>)>>,
      <<Found(0, 0), Found(31, 121), Found(31, 121)>>,
      <<Found(0, 121), Found(31, 121), Found(31, 121)>>,
      <<Throws(<<"x">>), Throws(<<"x">>), Throws(<<"y">>)>> }

\* the cleaned texts a query can be for
QueryTexts == {<<"a">>, <<"b">>}

Backends == [QueryTexts -> AnswerRuns]

\* names and addresses: empty, blank, and two that strip to a query text
GeoNames == {<< >>, <<SP>>, <<"a">>, <<"b", SP>>}

\* the name, the address and the backend get_coordinates is called with
ResolveInit ==
    /\ extracted_text = << >>
    /\ saved_json = 1
    /\ editing_json = 2
    /\ has_pending_edits = FALSE
    /\ docs = [i \in DRef |-> IF i = 1 THEN _create_empty_json(JRef(1), JRef(2))
                              ELSE _create_empty_json(JRef(3), JRef(4))]
    /\ maps = [i \in MRef |-> EmptyMap]
    /\ \E name \in GeoNames, address \in GeoAddresses, backend \in Backends :
           last = [address |-> address, backend |-> backend, name |-> name, op |-> "query",
                   result |-> Resolved(None, << >>)]

ResolveCall ==
    /\ last' = [last EXCEPT !.op = "get_coordinates",
                            !.result = get_coordinates(last.name, last.address, last.backend)]
    /\ UNCHANGED extracted_text
    /\ Untouched

ResolveNext == ResolveCall

ResolveSpec == ResolveInit /\ [][ResolveNext]_vars

Blank(text) == Strip(text) = << >>

\* C32 (query order): get_coordinates makes no query and fails when name and
\* address are both blank; its first query is the address whenever the address
\* is not blank, and the name otherwise; a second query is made exactly when
\* the address query gave no non-zero coordinate and the name is not blank and
\* differs from the address, and it is the name; the coordinate returned is
\* that of the last query when it succeeded with non-zero coordinates, and
\* none otherwise.
C32_QueryOrder ==
    last.op = "get_coordinates" =>
        LET name == last.name
            address == last.address
            queries == last.result.queries
            answer(i) == _geocode_address(queries[i], last.backend)
        IN  /\ (Blank(name) /\ Blank(address))
                  => queries = << >> /\ last.result.coords = None
            /\ ~Blank(address) => queries # << >> /\ queries[1] = Strip(address)
            /\ (Blank(address) /\ ~Blank(name)) => queries = <<Strip(name)>>
            /\ Len(queries) <= 2
            /\ Len(queries) = 2
                  <=> /\ ~Blank(address)
                      /\ ~Blank(name)
                      /\ Strip(name) # Strip(address)
                      /\ ~Usable(_geocode_address(Strip(address), last.backend))
            /\ Len(queries) = 2 => queries[2] = Strip(name)
            /\ \A i \in 1..(Len(queries) - 1) : ~Usable(answer(i))
            /\ queries # << >>
                  => last.result.coords =
                        IF Usable(answer(Len(queries))) THEN Coords(answer(Len(queries)))
                        ELSE None

\* the address query gives (0,0) as a success, the name query a coordinate
C32_Witness ==
    /\ last.op = "get_coordinates"
    /\ last.name = <<"b", SP>>
    /\ last.address = <<"a">>
    /\ last.backend[<<"a">>][1] = Found(0, 0)
    /\ last.backend[<<"b">>][1] = Found(31, 121)
    /\ last.result = Resolved([lat |-> 31, lng |-> 121], <<(<<"a">>), (<<"b">>)>>)

(***************************************************************************)
(* The batch geocoding of the coordinate tab: _get_all_coordinates and     *)
(* _get_missing_coordinates (CoordinateManagementTab).  Both change the    *)
(* items of the saved document object in place and then hand the object to *)
(* set_saved_json.                                                         *)
(***************************************************************************)
\* the characters of the address patterns, by code point
HAO == "U+53F7"

LOU == "U+697C"

\* line 231: the suffixes tried in this order
AddressSuffixes ==
    << <<"U+8DEF">>, <<"U+8857">>, <<"U+5DF7">>, <<"U+9053">>,
       <<"U+5927", "U+9053">>, <<"U+5927", "U+8857">> >>

\* the patterns of lines 221, 226 and 231 in the order they are tried
AddressPatterns == << <<HAO, LOU>>, <<HAO>> >> \o AddressSuffixes

\* where re.search('^.*?' + pattern, cleaned) can end: `.` matches no newline
MatchEnds(cleaned, pattern) ==
    {i \in Len(pattern)..Len(cleaned) :
        /\ SubSeq(cleaned, i - Len(pattern) + 1, i) = pattern
        /\ \A j \in 1..(i - Len(pattern)) : cleaned[j] # NL}

\* the patterns from the k-th on: the match of the first that matches (the
\* shortest, `.*?` being lazy), else the cleaned address
RECURSIVE FirstMatch(_, _)
FirstMatch(cleaned, k) ==
    IF k > Len(AddressPatterns) THEN cleaned
    ELSE IF MatchEnds(cleaned, AddressPatterns[k]) # {}
    THEN SubSeq(cleaned, 1, CHOOSE i \in MatchEnds(cleaned, AddressPatterns[k]) :
                                \A j \in MatchEnds(cleaned, AddressPatterns[k]) : i <= j)
    ELSE FirstMatch(cleaned, k + 1)

\* CoordinateManagementTab._clean_address(address)
_clean_address(address) ==
    IF address = << >> \/ clean_text(address) = << >> THEN << >>
    ELSE FirstMatch(clean_text(address), 1)

\* CoordinateManagementTab._process_address(address, default_prefix, use_clean_address)
_process_address(address, default_prefix, use_clean_address) ==
    LET processed_address == IF use_clean_address THEN _clean_address(address)
                             ELSE clean_text(address)
    IN  IF address = << >> THEN << >>
        ELSE IF default_prefix # << >> /\ processed_address # << >>
        THEN default_prefix \o processed_address
        ELSE processed_address

\* lines 287-298 / 355-365: the coordinate the service gives for an item, or None
ItemCoords(item, default_prefix, use_clean_address, backend) ==
    get_coordinates(_process_address(ItemGet(item, "name"), default_prefix, FALSE),
                    _process_address(ItemGet(item, "address"), default_prefix,
                                     use_clean_address),
                    backend).coords

\* lines 300-306 with the else branch assigning always: a failure resets the center
GeocodedItemResetting(item, coords) ==
    IF coords # None THEN ("center" :> coords) @@ item
    ELSE ("center" :> [lat |-> 0, lng |-> 0]) @@ item

\* lines 300-306: the item after the lookup
GeocodedItem(item, coords) ==
    IF coords # None THEN ("center" :> coords) @@ item
    ELSE IF "center" \notin DOMAIN item THEN ("center" :> [lat |-> 0, lng |-> 0]) @@ item
    ELSE item

\* `last` after a batch: its arguments and the positions it looked up
Batch(op, default_prefix, use_clean_address, geo_service, queried, done) ==
    [queried |-> queried]
    @@ Handled(op, [default_prefix |-> default_prefix, geo_service |-> geo_service,
                    use_clean_address |-> use_clean_address], NoMessage, done)

\* lines 315-316 / 378-379: set_saved_json(saved_json), the items of the stored
\* object being `data` by then
SaveBatch(data) ==
    \E D \in {[docs EXCEPT ![saved_json].data = data]} :
        \E r \in {_clean_json_structure(TierDocument("saved",
                       [i \in 1..Len(data) |-> ItemValue(data[i])]))} :
            IF r.exc # ""
            THEN /\ Heap(saved_json, editing_json, D, maps)
                 /\ UNCHANGED has_pending_edits
            ELSE /\ Heap(NewDoc, editing_json, (NewDoc :> r.doc) @@ D, r.maps)
                 /\ has_pending_edits' = FALSE

\* CoordinateManagementTab._get_all_coordinates, geo_service being
\* processor.geo_service: whether it is set, and its backend
_get_all_coordinates(default_prefix, use_clean_address, geo_service) ==
    LET data_items == docs[saved_json].data
    IN  IF ~geo_service.set \/ data_items = << >>
        THEN /\ last' = Batch("_get_all_coordinates", default_prefix, use_clean_address,
                              geo_service, {}, FALSE)
             /\ UNCHANGED extracted_text
             /\ Untouched
        ELSE /\ SaveBatch([i \in 1..Len(data_items) |->
                              GeocodedItem(data_items[i],
                                           ItemCoords(data_items[i], default_prefix,
                                                      use_clean_address,
                                                      geo_service.backend))])
             /\ last' = Batch("_get_all_coordinates", default_prefix, use_clean_address,
                              geo_service, 1..Len(data_items), TRUE)
             /\ UNCHANGED extracted_text

\* every position: the batch that looks every item up
AllItems(data_items) == 1..Len(data_items)

\* lines 337-341: the positions of the items with lat == 0 or lng == 0
MissingItems(data_items) ==
    {i \in 1..Len(data_items) :
        \/ CenterAxis(data_items[i], "lat") = 0
        \/ CenterAxis(data_items[i], "lng") = 0}

\* CoordinateManagementTab._get_missing_coordinates
_get_missing_coordinates(default_prefix, use_clean_address, geo_service) ==
    LET data_items == docs[saved_json].data
        missing_items == MissingItems(data_items)
        found(i) == ItemCoords(data_items[i], default_prefix, use_clean_address,
                               geo_service.backend)
    IN  IF ~geo_service.set \/ missing_items = {}
        THEN /\ last' = Batch("_get_missing_coordinates", default_prefix, use_clean_address,
                              geo_service, {}, FALSE)
             /\ UNCHANGED extracted_text
             /\ Untouched
        ELSE /\ SaveBatch([i \in 1..Len(data_items) |->
                              IF i \in missing_items /\ found(i) # None
                              THEN ("center" :> found(i)) @@ data_items[i]
                              ELSE data_items[i]])
             /\ last' = Batch("_get_missing_coordinates", default_prefix, use_clean_address,
                              geo_service, missing_items, TRUE)
             /\ UNCHANGED extracted_text

\* the items of the documents geocoded: without and with a coordinate, with a
\* latitude only and an address that has a street suffix, without an address
GeoItems ==
    { CafeItem,
      JDict(("center" :> Center(JNum(10), JNum(20))) @@ CafeItem.d),
      JDict([address |-> JStr(<<"b", "U+8DEF", "d">>), center |-> Center(JNum(10), JNum(0)),
             name |-> JStr(<<"c">>)]),
      Place }

GeoDocuments == {FullDocument(data) : data \in UNION {[1..n -> GeoItems] : n \in 0..MaxRows}}

GeoPrefixes == {<< >>, <<"p">>}

\* the queries these items give rise to: by name, by address
NameTexts == {p \o n : p \in GeoPrefixes, n \in {<<"a">>, <<"c">>}}

AddressTexts ==
    {p \o a : p \in GeoPrefixes, a \in {<<"b">>, <<"b", "U+8DEF">>, <<"b", "U+8DEF", "d">>}}

Refused == <<NotFound(<<"e1">>), Throws(<<"x">>), NotFound(<<"e2">>)>>

\* a backend that knows some of the texts and answers the same for each of them
KnownBackend(known, run) ==
    [text \in NameTexts \cup AddressTexts |-> IF text \in known THEN run ELSE Refused]

\* processor.geo_service: not set, or a service whose backend knows nothing,
\* the names, the addresses or every text, and answers with a coordinate at the
\* second call or with (0,0) as a success
GeoServices ==
    {[backend |-> KnownBackend({}, Refused), set |-> FALSE]}
    \cup {[backend |-> KnownBackend(known, run), set |-> TRUE] :
             known \in {{}, NameTexts, AddressTexts, NameTexts \cup AddressTexts},
             run \in { <<NotFound(<<"e1">>), Found(31, 121), NotFound(<<"e1">>)>>,
                       <<Found(0, 0), Found(31, 121), Found(31, 121)>> }}

GeocodeNext ==
    \/ \E d \in GeoDocuments : set_saved_json(d)
    \/ \E default_prefix \in GeoPrefixes, use_clean_address \in BOOLEAN,
          geo_service \in GeoServices :
           _get_all_coordinates(default_prefix, use_clean_address, geo_service)
    \/ \E default_prefix \in GeoPrefixes, use_clean_address \in BOOLEAN,
          geo_service \in GeoServices :
           _get_missing_coordinates(default_prefix, use_clean_address, geo_service)

GeocodeSpec == Init /\ [][GeocodeNext]_vars

BatchOps == {"_get_all_coordinates", "_get_missing_coordinates"}

\* the positions of the saved items the service of the batch that `args` are of
\* resolves no coordinate for
Unresolved(args) ==
    {i \in 1..Len(savedDocument.data) :
        ItemCoords(savedDocument.data[i], args.default_prefix, args.use_clean_address,
                   args.geo_service.backend) = None}

\* C31 as stated (a failed resolution leaves the sentinel): after a geocoding
\* step over the saved document, every item it looked up and resolved no
\* coordinate for has the center (0,0), whatever it held before.
C31_FailureGivesSentinel ==
    [][(last'.op \in BatchOps /\ last'.done)
          => \A i \in last'.queried \cap Unresolved(last'.arg) :
                 savedDocument'.data[i].center = NoCoordinate]_vars

\* C31 as amended (a failed resolution changes nothing): after a geocoding step
\* over the saved document, every item it looked up and resolved no coordinate
\* for has the center it had before the step, (0,0) only if that was (0,0).
C31_FailureKeepsCenter ==
    [][(last'.op \in BatchOps /\ last'.done)
          => /\ Len(savedDocument'.data) = Len(savedDocument.data)
             /\ \A i \in last'.queried \cap Unresolved(last'.arg) :
                    savedDocument'.data[i].center = savedDocument.data[i].center]_vars

\* a batch over an item at (10,20) that the service resolved nothing for
C31_Witness ==
    /\ last.op = "_get_all_coordinates"
    /\ last.done
    /\ last.queried = {1}
    /\ Len(savedDocument.data) = 1
    /\ Unresolved(last.arg) = {1}
    /\ savedDocument.data[1].center = [lat |-> 10, lng |-> 20]

\* C38 (the batch for missing coordinates touches only those): it looks up
\* only items whose center has lat = 0 or lng = 0, and the center of every item
\* with both coordinates non-zero is after the batch what it was before,
\* whether the lookups succeed or fail.
C38_OnlyMissing ==
    [][last'.op = "_get_missing_coordinates"
          => /\ Len(savedDocument'.data) = Len(savedDocument.data)
             /\ \A i \in 1..Len(savedDocument.data) :
                    LET center == savedDocument.data[i].center
                    IN  IF center.lat # 0 /\ center.lng # 0
                        THEN /\ i \notin last'.queried
                             /\ savedDocument'.data[i].center = center
                        ELSE last'.done => i \in last'.queried]_vars

\* an item with coordinates kept beside one the batch found a coordinate for
C38_Witness ==
    /\ last.op = "_get_missing_coordinates"
    /\ last.done
    /\ last.queried = {2}
    /\ Len(savedDocument.data) = 2
    /\ savedDocument.data[1].center = [lat |-> 10, lng |-> 20]
    /\ savedDocument.data[2].center = [lat |-> 31, lng |-> 121]
    /\ Unresolved(last.arg) = {}

(***************************************************************************)
(* The caller of set_saved_json / set_editing_json goes on holding the     *)
(* document object it passed.  Line 223 builds a new list of new items     *)
(* (lines 171-200 build each item, its tag list and its center anew);      *)
(* lines 217 and 219 assign the caller's own filter mappings to the        *)
(* cleaned document.                                                       *)
(***************************************************************************)
\* what the last caller of a set operation still holds of the store: the tier
\* it wrote and the filter sides that are its own objects
CallerHolds ==
    IF last.op \in {"set_saved_json", "set_editing_json"} /\ last.exc = ""
    THEN [sides |-> {side \in {"inclusive", "exclusive"} : GivesSide(last.arg.d, side)},
          tier |-> IF last.op = "set_saved_json" THEN "saved" ELSE "editing"]
    ELSE IF last.op \in {"caller_writes_side", "caller_writes_items"}
    THEN last.holds
    ELSE [sides |-> {}, tier |-> ""]

Mutated(op, holds) == [holds |-> holds] @@ Did(op)

\* the caller assigns to its document's filter[side] mapping: doc["filter"][side][k] = v
caller_writes_side(side, mapping) ==
    /\ CallerHolds.tier # ""
    /\ LET tier == CallerHolds.tier
       IN  /\ maps' = IF side \in CallerHolds.sides
                      THEN [maps EXCEPT ![docs[TierRef(tier)].filter[side].r] = mapping]
                      ELSE maps
           /\ last' = Mutated("caller_writes_side", CallerHolds)
    /\ UNCHANGED <<extracted_text, saved_json, editing_json, has_pending_edits, docs>>

\* the caller assigns to its document's items: doc["data"][i][k] = v, doc["data"].append(v)
caller_writes_items ==
    /\ CallerHolds.tier # ""
    /\ last' = Mutated("caller_writes_items", CallerHolds)
    /\ UNCHANGED extracted_text
    /\ Untouched

CallerNext ==
    \/ \E d \in Documents : set_saved_json(d)
    \/ \E d \in Documents : set_editing_json(d)
    \/ \E side \in {"inclusive", "exclusive"}, mapping \in {EmptyMap, MapA, MapB} :
           caller_writes_side(side, mapping)
    \/ caller_writes_items

CallerSpec == Init /\ [][CallerNext]_vars

\* C33 (the set operations store a copy): once set_saved_json or
\* set_editing_json has returned, a change the caller makes to the document
\* object it passed (its items, its filter.inclusive or filter.exclusive
\* mapping) changes neither what the store returns for the saved tier nor
\* what it returns for the editing tier.
C33_SetStoresCopy ==
    [][last'.op \in {"caller_writes_side", "caller_writes_items"}
          => /\ savedDocument' = savedDocument
             /\ editingDocument' = editingDocument]_vars

(***************************************************************************)
(* The data-editing tab (class DataEditingTab).  One run of render() goes  *)
(* through three writes of the editing tier in a row: the copy of the      *)
(* saved document, the clean step and the table sync; `last.pc` is where   *)
(* the run is, and nothing else happens before it is through.              *)
(***************************************************************************)
\* f"U+5730 U+70B9 {index}"
DefaultName(index) == <<"U+5730", "U+70B9", SP>> \o NatStr(index)

\* DataEditingTab._clean_text_field for a str
_clean_text_field(value, default) == IF Strip(value) # << >> THEN clean_text(value) ELSE default

\* DataEditingTab._clean_tags_field for a list of str
RECURSIVE _clean_tags_field(_)
_clean_tags_field(tags) ==
    IF tags = << >> THEN << >>
    ELSE (IF Strip(Head(tags)) # << >> THEN <<Strip(Head(tags))>> ELSE << >>)
         \o _clean_tags_field(Tail(tags))

\* DataEditingTab._clean_center_field for a dict of numbers
_clean_center_field(center) ==
    [lat |-> IF -90 <= center.lat /\ center.lat <= 90 THEN center.lat ELSE 0,
     lng |-> IF -180 <= center.lng /\ center.lng <= 180 THEN center.lng ELSE 0]

\* DataEditingTab._clean_data_item: the seven keys of lines 88-96
TabCleanedItem(item, index) ==
    [address |-> _clean_text_field(ItemGet(item, "address"), << >>),
     center |-> _clean_center_field(item.center),
     intro |-> _clean_text_field(ItemGet(item, "intro"), << >>),
     name |-> _clean_text_field(ItemGet(item, "name"), DefaultName(index)),
     phone |-> _clean_text_field(ItemGet(item, "phone"), << >>),
     tags |-> _clean_tags_field(ItemGet(item, "tags")),
     webName |-> _clean_text_field(ItemGet(item, "webName"), << >>)]

\* lines 59-70: the items that are kept
RECURSIVE TabCleanedItems(_, _)
TabCleanedItems(data_items, i) ==
    IF i > Len(data_items) THEN << >>
    ELSE LET cleaned_item == TabCleanedItem(data_items[i], i)
         IN  (IF Strip(cleaned_item.name) = << >> /\ Strip(cleaned_item.address) = << >>
              THEN << >> ELSE <<cleaned_item>>)
             \o TabCleanedItems(data_items, i + 1)

\* DataEditingTab._safe_get_text for a str
_safe_get_text(value, default) == IF Strip(value) # << >> THEN Strip(value) ELSE default

\* lines 290-312: the row of the table for an item
TableRow(item, i) ==
    [address |-> _safe_get_text(ItemGet(item, "address"), << >>),
     intro |-> _safe_get_text(ItemGet(item, "intro"), << >>),
     lat |-> CenterAxis(item, "lat"),
     lng |-> CenterAxis(item, "lng"),
     name |-> _safe_get_text(ItemGet(item, "name"), DefaultName(i)),
     phone |-> _safe_get_text(ItemGet(item, "phone"), << >>),
     webName |-> _safe_get_text(ItemGet(item, "webName"), << >>)]

\* DataEditingTab._safe_clean_text for a str
_safe_clean_text(value) == IF Strip(value) # << >> THEN clean_text(value) ELSE << >>

\* DataEditingTab._safe_parse_coordinate for a number
_safe_parse_coordinate(value, min_val, max_val) ==
    IF min_val <= value /\ value <= max_val THEN value ELSE 0

\* lines 401-423: the item built from a row
ItemOfRow(row, i) ==
    [address |-> _safe_clean_text(row.address),
     center |-> [lat |-> _safe_parse_coordinate(row.lat, -90, 90),
                 lng |-> _safe_parse_coordinate(row.lng, -180, 180)],
     intro |-> _safe_clean_text(row.intro),
     name |-> IF _safe_clean_text(row.name) # << >> THEN _safe_clean_text(row.name)
              ELSE DefaultName(i),
     phone |-> _safe_clean_text(row.phone),
     tags |-> << >>,
     webName |-> _safe_clean_text(row.webName)]

\* lines 399-427: the items of the rows that are kept
RECURSIVE ItemsOfRows(_, _)
ItemsOfRows(edited_df, i) ==
    IF i > Len(edited_df) THEN << >>
    ELSE (IF Strip(ItemOfRow(edited_df[i], i).name) # << >>
             \/ Strip(ItemOfRow(edited_df[i], i).address) # << >>
          THEN <<ItemOfRow(edited_df[i], i)>> ELSE << >>)
         \o ItemsOfRows(edited_df, i + 1)

\* `last` during and after a run of the tab: the saved document the run began
\* with, and whether the user changed the table
TabRun(op, pc, before, edited) ==
    [edited |-> edited, pc |-> pc] @@ [Did(op) EXCEPT !.before = before]

\* no run of render() is under way
Idle == IF "pc" \in DOMAIN last THEN last.pc \in {"idle", "saved"} ELSE TRUE

\* editing_json["data"] = data; set_editing_json(editing_json) (lines 73-74, 430-432)
WriteEditingData(data) ==
    \E D \in {[docs EXCEPT ![editing_json].data = data]} :
        \E r \in {_clean_json_structure(TierDocument("editing",
                       [i \in 1..Len(data) |-> ItemValue(data[i])]))} :
            /\ Heap(saved_json, NewDoc, (NewDoc :> r.doc) @@ D, r.maps)
            /\ has_pending_edits' = TRUE

\* render(), lines 13-23
render ==
    /\ Idle
    /\ UNCHANGED extracted_text
    /\ IF ~has_saved_json
       THEN /\ last' = TabRun("render", "idle", savedDocument, FALSE)
            /\ Untouched
       ELSE /\ last' = TabRun("render", "clean", savedDocument, FALSE)
            /\ IF docs[editing_json].data = << >> THEN CopySavedToEditing ELSE Untouched

\* render(), lines 26-32: _validate_and_clean_data(), and the return when
\* there is nothing to edit
_validate_and_clean_data ==
    /\ ~Idle
    /\ last.pc = "clean"
    /\ UNCHANGED extracted_text
    /\ \E cleaned_items \in {TabCleanedItems(docs[editing_json].data, 1)} :
           /\ WriteEditingData(cleaned_items)
           /\ last' = [last EXCEPT !.op = "_validate_and_clean_data",
                                   !.pc = IF cleaned_items = << >> THEN "idle" ELSE "table"]

\* what the user does to the table: nothing, a phone number for the first row,
\* the first row deleted
TableEdits == {"none", "phone", "delete"}

EditedRows(editable_data, edit) ==
    CASE edit = "none" -> editable_data
      [] edit = "phone" -> [editable_data EXCEPT ![1].phone = <<"1">>]
      [] edit = "delete" -> Tail(editable_data)

\* render(), line 40: _render_data_table(), the table coming back from
\* st.data_editor as the user left it, and _update_data_from_table()
_render_data_table(edit) ==
    /\ ~Idle
    /\ last.pc = "table"
    /\ UNCHANGED extracted_text
    /\ \E data_items \in {docs[editing_json].data} :
           WriteEditingData(ItemsOfRows(
               EditedRows([i \in 1..Len(data_items) |-> TableRow(data_items[i], i)], edit), 1))
    /\ last' = [last EXCEPT !.op = "_render_data_table", !.pc = "idle",
                            !.edited = (edit # "none")]

\* _render_save_editing(), lines 730-731: `save all`, pressed after a run
save_all ==
    /\ last.op = "_render_data_table"
    /\ \E c \in {JsonCopy(editing_json)} :
           /\ Heap(c.ref, editing_json, (c.ref :> c.doc) @@ docs, c.maps)
           /\ has_pending_edits' = FALSE
    /\ last' = [last EXCEPT !.op = "save_all", !.pc = "saved"]
    /\ UNCHANGED extracted_text

\* the documents the tab is opened with: items with and without tags and link
TabDocuments ==
    {FullDocument(data) : data \in UNION {[1..n -> {FilledItem, CafeItem, Place}] : n \in 0..MaxRows}}

TabNext ==
    \/ \E d \in TabDocuments : Idle /\ set_saved_json(d)
    \/ render
    \/ _validate_and_clean_data
    \/ \E edit \in TableEdits : _render_data_table(edit)
    \/ save_all

TabSpec == Init /\ [][TabNext]_vars

TabExtraction == "U+6570 U+636E U+63D0 U+53D6"

TabMapInfo == "U+5730 U+56FE U+4FE1 U+606F"

TabEditing == "U+6570 U+636E U+7F16 U+8F91"

TabTags == "U+6807 U+7B7E U+7BA1 U+7406"

TabCoordinates == "U+5750 U+6807 U+7BA1 U+7406"

TabExport == "U+6570 U+636E U+5BFC U+51FA"

TabJsonEditor == "JSON U+7F16 U+8F91 U+5668"

TabNames ==
    {TabExtraction, TabMapInfo, TabEditing, TabTags, TabCoordinates, TabExport, TabJsonEditor}

\* get_saved_json(): the saved document as the value its reader sees
get_saved_json ==
    LET doc == savedDocument
    IN  JDict([data |-> JList([i \in 1..Len(doc.data) |-> ItemValue(doc.data[i])]),
               description |-> JStr(doc.description),
               filter |-> JDict([exclusive |-> JDict(doc.filter.exclusive),
                                 inclusive |-> JDict(doc.filter.inclusive)]),
               name |-> JStr(doc.name), origin |-> JStr(doc.origin)])

\* {"valid": ..., "message": ...}; the message is kept for a failure only, as
\* the reason of it
ValidationResult(valid, message) == [message |-> message, valid |-> valid]

Passed == ValidationResult(TRUE, "")

\* line 203: a text of fewer characters is too short
MinTextLen == 10

\* lines 197-227
_validate_extraction_data ==
    IF Strip(extracted_text) # << >> /\ Len(Strip(extracted_text)) < MinTextLen
    THEN ValidationResult(FALSE, "text_too_short")
    ELSE Passed

\* lines 229-245 (the filter of a stored document is a dict with both sides)
_validate_map_info_data ==
    IF Strip(savedDocument.name) = << >> THEN ValidationResult(FALSE, "name_empty")
    ELSE Passed

\* item.get("webLink", "") is not empty and validate_url refuses it
BadWebLink(item) ==
    IF "webLink" \in DOMAIN item THEN item["webLink"] # << >> /\ ~validate_url(item["webLink"])
    ELSE FALSE

\* lines 247-274
_validate_editing_data ==
    IF has_pending_edits THEN ValidationResult(FALSE, "pending_edits")
    ELSE IF ~validate_json_structure(get_saved_json).ok
    THEN ValidationResult(FALSE, "structure")
    ELSE IF \E i \in 1..Len(savedDocument.data) : BadWebLink(savedDocument.data[i])
    THEN ValidationResult(FALSE, "weblink")
    ELSE Passed

\* lines 276-290 (get_all_tags raises nothing on a stored document)
_validate_tag_data ==
    IF has_pending_edits THEN ValidationResult(FALSE, "pending_edits") ELSE Passed

\* lines 300-320 for one item: the reason it fails for, "" if none
CoordinateMessage(item) ==
    IF ~(-90 <= item.center.lat /\ item.center.lat <= 90) THEN "lat_out_of_range"
    ELSE IF ~(-180 <= item.center.lng /\ item.center.lng <= 180) THEN "lng_out_of_range"
    ELSE IF BadWebLink(item) THEN "weblink"
    ELSE ""

\* lines 292-322: the first item that fails decides
RECURSIVE FirstCoordinateMessage(_)
FirstCoordinateMessage(data_items) ==
    IF data_items = << >> THEN ""
    ELSE IF CoordinateMessage(Head(data_items)) # "" THEN CoordinateMessage(Head(data_items))
    ELSE FirstCoordinateMessage(Tail(data_items))

_validate_coordinate_data ==
    IF FirstCoordinateMessage(savedDocument.data) # ""
    THEN ValidationResult(FALSE, FirstCoordinateMessage(savedDocument.data))
    ELSE Passed

\* lines 324-331
_validate_export_data ==
    IF savedDocument.data = << >> THEN ValidationResult(FALSE, "no_data") ELSE Passed

\* lines 333-336
_validate_json_editor_data == Passed

\* lines 166-195
_validate_current_tab_data(tab_name) ==
    CASE tab_name = TabExtraction -> _validate_extraction_data
      [] tab_name = TabMapInfo -> _validate_map_info_data
      [] tab_name = TabEditing -> _validate_editing_data
      [] tab_name = TabTags -> _validate_tag_data
      [] tab_name = TabCoordinates -> _validate_coordinate_data
      [] tab_name = TabExport -> _validate_export_data
      [] tab_name = TabJsonEditor -> _validate_json_editor_data
      [] OTHER -> Passed

\* lines 379-395: the tabs whose save applies the pending edits
SavesNothing(tab_name) == FALSE

Saves(tab_name) == tab_name \in {TabEditing, TabTags} /\ has_pending_edits

\* lines 338-367: _save_current_tab_data(tab_name); it always succeeds
_save_current_tab_data(tab_name) ==
    IF Saves(tab_name)
    THEN \E c \in {JsonCopy(editing_json)} :
             /\ Heap(c.ref, editing_json, (c.ref :> c.doc) @@ docs, c.maps)
             /\ has_pending_edits' = FALSE
    ELSE Untouched

\* lines 113-117 and 616-618: the validation ran and failed
NeverBlocked(validated, validation_result) == FALSE

Blocked(validated, validation_result) == validated /\ ~validation_result.valid

\* the buttons of a handler: none pressed, "fix data", "force switch"
Buttons == {"none", "fix", "force"}

\* `last` after a handler of the tab manager
Switched(op, force_switch, pressed, returned) ==
    [last EXCEPT !.op = op, !.force_switch = force_switch, !.pressed = pressed,
                 !.returned = returned]

\* handle_tab_switch(new_tab, force_switch), lines 92-164.  `pressed` is the
\* button pressed where the failed validation shows its two buttons; "force
\* switch" is the call of line 130, handle_tab_switch(new_tab, force_switch=True),
\* run to its end.
handle_tab_switch(new_tab, force_switch, pressed) ==
    LET current_tab == last.current_tab
        validated == last.auto_save_enabled /\ ~force_switch
        validation_result == _validate_current_tab_data(current_tab)
        blocked == Blocked(validated, validation_result)
        button == IF current_tab # new_tab /\ blocked THEN pressed ELSE "none"
        noted == IF current_tab # new_tab /\ validated THEN validation_result
                 ELSE last.last_validation_result
    IN  /\ UNCHANGED extracted_text
        /\ IF current_tab = new_tab
           THEN /\ Untouched
                /\ last' = Switched("handle_tab_switch", force_switch, button, TRUE)
           ELSE IF blocked /\ pressed # "force"
           THEN /\ Untouched
                /\ last' = [Switched("handle_tab_switch", force_switch, button, FALSE)
                               EXCEPT !.previous_tab = current_tab,
                                      !.last_validation_result = noted]
           ELSE /\ IF last.auto_save_enabled THEN _save_current_tab_data(current_tab)
                   ELSE Untouched
                /\ last' = [Switched("handle_tab_switch", force_switch, button, TRUE)
                               EXCEPT !.previous_tab = current_tab,
                                      !.last_validation_result = noted,
                                      !.current_tab = new_tab]

\* manual_switch_tab(new_tab), lines 605-631, with _do_switch_tab, lines 633-642;
\* it returns nothing: `returned` says whether it ran to the switch
manual_switch_tab(new_tab, pressed) ==
    LET current_tab == last.current_tab
        validated == last.auto_save_enabled
        blocked == Blocked(validated, _validate_current_tab_data(current_tab))
        button == IF current_tab # new_tab /\ blocked
                  THEN (IF pressed = "force" THEN "force" ELSE "none") ELSE "none"
    IN  /\ UNCHANGED extracted_text
        /\ IF current_tab = new_tab
           THEN /\ Untouched
                /\ last' = Switched("manual_switch_tab", FALSE, button, FALSE)
           ELSE IF blocked
           THEN /\ Untouched
                /\ last' = IF pressed = "force"
                           THEN [Switched("manual_switch_tab", FALSE, button, TRUE)
                                    EXCEPT !.previous_tab = current_tab,
                                           !.current_tab = new_tab]
                           ELSE Switched("manual_switch_tab", FALSE, button, FALSE)
           ELSE /\ IF validated THEN _save_current_tab_data(current_tab) ELSE Untouched
                /\ last' = [Switched("manual_switch_tab", FALSE, button, TRUE)
                               EXCEPT !.previous_tab = current_tab,
                                      !.current_tab = new_tab]

\* toggle_auto_save(enabled), lines 449-456
toggle_auto_save(enabled) ==
    /\ last' = [Switched("toggle_auto_save", FALSE, "none", TRUE)
                   EXCEPT !.auto_save_enabled = enabled]
    /\ Untouched
    /\ UNCHANGED extracted_text

\* what the tabs do between two switches: the saved document replaced, the
\* editing document replaced (edits pending), the text extracted
tab_sets_saved(json_data) ==
    /\ \E r \in {_clean_json_structure(json_data)} : StoreSaved(r)
    /\ last' = Switched("set_saved_json", FALSE, "none", TRUE)
    /\ UNCHANGED extracted_text

tab_sets_editing(json_data) ==
    /\ \E r \in {_clean_json_structure(json_data)} : StoreEditing(r)
    /\ last' = Switched("set_editing_json", FALSE, "none", TRUE)
    /\ UNCHANGED extracted_text

tab_sets_text(text) ==
    /\ extracted_text' = clean_text(text)
    /\ last' = Switched("set_extracted_text", FALSE, "none", TRUE)
    /\ Untouched

\* an item out of range with a link validate_url refuses
BadLinkItem ==
    JDict([center |-> Center(JNum(95), JNum(10)), name |-> JStr(<<"a">>),
           webLink |-> JStr(<<"a", "b", "c">>)])

\* saved documents: a name and a valid item; an item that fails the validation
\* of two tabs (the document of Init has no name and no data)
SwitchDocuments == {FullDocument(<<FilledItem>>), FullDocument(<<BadLinkItem>>)}

\* editing documents
SwitchEdits == {FullDocument(<<Place>>)}

\* texts: one of fewer than MinTextLen characters and one of MinTextLen
SwitchTexts == {<<"a", "b">>, [i \in 1..MinTextLen |-> "a"]}

\* _init_session_state, lines 37-58, over the store as Init leaves it
SwitchInit ==
    /\ extracted_text = << >>
    /\ saved_json = 1
    /\ editing_json = 2
    /\ has_pending_edits = FALSE
    /\ docs = [i \in DRef |-> IF i = 1 THEN _create_empty_json(JRef(1), JRef(2))
                              ELSE _create_empty_json(JRef(3), JRef(4))]
    /\ maps = [i \in MRef |-> EmptyMap]
    /\ last = [auto_save_enabled |-> TRUE, current_tab |-> TabExtraction,
               force_switch |-> FALSE, last_validation_result |-> Passed,
               op |-> "_init_session_state", pressed |-> "none",
               previous_tab |-> TabExtraction, returned |-> TRUE]

SwitchNext ==
    \/ \E new_tab \in TabNames, force_switch \in BOOLEAN, pressed \in Buttons :
           handle_tab_switch(new_tab, force_switch, pressed)
    \/ \E new_tab \in TabNames, pressed \in Buttons : manual_switch_tab(new_tab, pressed)
    \/ \E enabled \in BOOLEAN : toggle_auto_save(enabled)
    \/ \E json_data \in SwitchDocuments : tab_sets_saved(json_data)
    \/ \E json_data \in SwitchEdits : tab_sets_editing(json_data)
    \/ \E text \in SwitchTexts : tab_sets_text(text)

SwitchSpec == SwitchInit /\ [][SwitchNext]_vars

\* a switch run by handle_tab_switch or manual_switch_tab
SwitchStep == last'.op \in {"handle_tab_switch", "manual_switch_tab"}

\* the step was forced: force_switch was given or "force switch" was pressed
Forced == last'.force_switch \/ last'.pressed = "force"

\* C35 (tab-switch gating): with auto-save enabled, when the validation of the
\* current tab fails, a handle_tab_switch or manual_switch_tab that is not
\* forced does not switch: current_tab, the saved document, the editing
\* document and the pending-edits flag are what they were; the tab changes
\* only where the step was forced.
C35_FailedValidationBlocks ==
    [][(/\ SwitchStep
        /\ last.auto_save_enabled
        /\ ~_validate_current_tab_data(last.current_tab).valid
        /\ ~Forced)
           => /\ last'.current_tab = last.current_tab
              /\ savedDocument' = savedDocument
              /\ editingDocument' = editingDocument
              /\ has_pending_edits' = has_pending_edits]_vars

\* an unforced handle_tab_switch has just been refused on the data-editing tab
\* with edits pending
C35_Witness ==
    /\ last.op = "handle_tab_switch"
    /\ ~last.returned
    /\ ~last.force_switch
    /\ last.pressed # "force"
    /\ last.auto_save_enabled
    /\ last.current_tab = TabEditing
    /\ last.last_validation_result = ValidationResult(FALSE, "pending_edits")
    /\ has_pending_edits

\* C36 (auto-save leaves no pending edits): with auto-save enabled, when
\* handle_tab_switch returns True for a switch away from the data-editing or
\* the tag-management tab, no edits are pending afterwards: an unforced switch
\* found none pending and leaves the saved document as it was, a forced one
\* that found edits pending has made the saved document the editing document.
C36_SwitchLeavesNoPendingEdits ==
    [][(/\ last'.op = "handle_tab_switch"
        /\ last'.returned
        /\ last.auto_save_enabled
        /\ last.current_tab \in {TabEditing, TabTags}
        /\ last'.current_tab # last.current_tab)
           => /\ ~has_pending_edits'
              /\ IF Forced
                 THEN IF has_pending_edits THEN savedDocument' = editingDocument
                      ELSE savedDocument' = savedDocument
                 ELSE ~has_pending_edits /\ savedDocument' = savedDocument]_vars

\* a forced handle_tab_switch has left the tag-management tab and applied the
\* pending edits: the saved document is the edited one
C36_Witness ==
    /\ last.op = "handle_tab_switch"
    /\ last.returned
    /\ last.force_switch \/ last.pressed = "force"
    /\ last.auto_save_enabled
    /\ last.previous_tab = TabTags
    /\ last.current_tab # TabTags
    /\ ~has_pending_edits
    /\ savedDocument = editingDocument
    /\ Len(savedDocument.data) = 1
    /\ savedDocument.data[1].tags = <<TagA>>

====
